---- MODULE Spec2Model ----
(***************************************************************************)
(* A model of the TMDbAPIs object layer: the value coercion dispatcher     *)
(* (_parse), the lazy / partial entity protocol (TMDbObj, TMDbReload,      *)
(* Movie) and the pagination controller (TMDbPagination and its concrete   *)
(* kinds).                                                                 *)
(*                                                                         *)
(* Python and JSON values are tagged records [t |-> tag, v |-> payload]:   *)
(* the tag keeps None, 0, "" and [] apart, as the code's `is None` tests   *)
(* and str() conversions do.                                               *)
(***************************************************************************)
EXTENDS Integers, Sequences, FiniteSets, TLC

VARIABLES
    pin,      \* coercion: the arguments of the _parse call under study
    pout,     \* coercion: its outcome ([err, v]) or Pending
    ent,      \* entity: the Movie instance (fields, _loading, _partial, _name)
    remote,   \* entity: the payload movies_get_details returns right now
    calls,    \* entity: number of full-load requests sent so far
    elast,    \* entity: the last operation and what it observed
    pg,       \* pagination: the controller instance
    rtotal,   \* pagination: total_results the remote endpoint holds right now
    fetched,  \* pagination: page number -> responses received for it
    plast,    \* pagination: the last operation and what it observed
    eqin,     \* equality: the two operands of the __eq__ call under study
    eqout     \* equality: its result or Pending

parseVars == <<pin, pout>>
entVars == <<ent, remote, calls, elast>>
pagVars == <<pg, rtotal, fetched, plast>>
eqVars == <<eqin, eqout>>
vars == <<pin, pout, ent, remote, calls, elast, pg, rtotal, fetched, plast, eqin, eqout>>

(***************************************************************************)
(* Values                                                                  *)
(***************************************************************************)
Null == [t |-> "null"]
JInt(n) == [t |-> "int", v |-> n]
JFloat(n) == [t |-> "float", v |-> n]
JStr(s) == [t |-> "str", v |-> s]
JBool(b) == [t |-> "bool", v |-> b]
JList(s) == [t |-> "list", v |-> s]
JDict(f) == [t |-> "dict", v |-> f]
NoKeys == [k \in {} |-> Null]

Pending == [err |-> "pending", v |-> Null]
Ok(x) == [err |-> "none", v |-> x]
Raise(e) == [err |-> e, v |-> Null]

\* The decimal numerals of the model's vocabulary, for int(), float() and str().
NumeralValue == ("0" :> 0) @@ ("1" :> 1) @@ ("5" :> 5) @@ ("7" :> 7)

IntNumeral(n) == CHOOSE s \in DOMAIN NumeralValue : NumeralValue[s] = n

\* str.lower() on the vocabulary: only these strings hold upper-case letters.
Lower(s) ==
    CASE s = "T" -> "t"
      [] s = "TRUE" -> "true"
      [] s = "True" -> "true"
      [] s = "F" -> "f"
      [] s = "False" -> "false"
      [] s = "FALSE" -> "false"
      [] s = "Y" -> "y"
      [] s = "YES" -> "yes"
      [] s = "Yes" -> "yes"
      [] s = "N" -> "n"
      [] s = "NO" -> "no"
      [] s = "No" -> "no"
      [] s = "None" -> "none"
      [] s = "EN" -> "en"
      [] s = "en-US" -> "en-us"
      [] OTHER -> s

\* `a in s` for two strings: no word of the vocabulary is a proper substring
\* of another, so containment is equality.
IsSubstring(a, s) == a = s

\* int(value)
PyInt(x) ==
    CASE x.t = "int" -> Ok(JInt(x.v))
      [] x.t = "float" -> Ok(JInt(x.v))
      [] x.t = "bool" -> Ok(JInt(IF x.v THEN 1 ELSE 0))
      [] x.t = "str" -> IF x.v \in DOMAIN NumeralValue
                        THEN Ok(JInt(NumeralValue[x.v]))
                        ELSE Raise("ValueError")
      [] x.t \in {"list", "dict", "null"} -> Raise("TypeError")

\* float(value)
PyFloat(x) ==
    CASE x.t \in {"int", "float"} -> Ok(JFloat(x.v))
      [] x.t = "bool" -> Ok(JFloat(IF x.v THEN 1 ELSE 0))
      [] x.t = "str" -> IF x.v \in DOMAIN NumeralValue
                        THEN Ok(JFloat(NumeralValue[x.v]))
                        ELSE Raise("ValueError")
      [] x.t \in {"list", "dict", "null"} -> Raise("TypeError")

\* str(value). The text Python prints for a list, a dict or a float is outside
\* the vocabulary: such calls are marked and kept out of the inputs.
PyStr(x) ==
    CASE x.t = "str" -> Ok(JStr(x.v))
      [] x.t = "int" -> IF x.v \in {NumeralValue[s] : s \in DOMAIN NumeralValue}
                        THEN Ok(JStr(IntNumeral(x.v)))
                        ELSE Raise("Unmodelled")
      [] x.t = "bool" -> Ok(JStr(IF x.v THEN "True" ELSE "False"))
      [] x.t = "null" -> Ok(JStr("None"))
      [] x.t \in {"list", "dict", "float"} -> Raise("Unmodelled")

(***************************************************************************)
(* The coercion dispatcher: TMDbObj._parse (api = FALSE) and               *)
(* TMDbAPIs._parse (api = TRUE)                                            *)
(***************************************************************************)
ValueTypes == {"int", "float", "bool", "str", "dict"}

\* Numbers default to None like everything else.
ParseDefault_NoneForNumbers(value_type, default_is_none, is_list) ==
    IF ~default_is_none /\ is_list THEN JList(<<>>) ELSE Null

\* base.py 92-97, tmdb.py 138-143
ParseDefault(value_type, default_is_none, is_list) ==
    IF ~default_is_none /\ value_type \in {"int", "float"} THEN JInt(0)
    ELSE IF ~default_is_none /\ is_list THEN JList(<<>>)
    ELSE Null

\* base.py 100-107: `attr in value` on whatever value is, then value[attr]
RECURSIVE ObjWalk(_, _)
ObjWalk(value, attrs) ==
    IF attrs = <<>> THEN [st |-> "ok", v |-> value]
    ELSE CASE value.t = "dict" ->
                IF Head(attrs) \in DOMAIN value.v
                THEN ObjWalk(value.v[Head(attrs)], Tail(attrs))
                ELSE [st |-> "default", v |-> Null]
           [] value.t = "str" ->
                IF IsSubstring(Head(attrs), value.v)
                THEN [st |-> "TypeError", v |-> Null]
                ELSE [st |-> "default", v |-> Null]
           [] value.t = "list" ->
                IF \E i \in 1..Len(value.v) : value.v[i] = JStr(Head(attrs))
                THEN [st |-> "TypeError", v |-> Null]
                ELSE [st |-> "default", v |-> Null]
           [] value.t \in {"null", "int", "float", "bool"} ->
                [st |-> "TypeError", v |-> Null]

\* tmdb.py 146-153: `isinstance(value, dict) and attr in value`
RECURSIVE ApiWalk(_, _)
ApiWalk(value, attrs) ==
    IF attrs = <<>> THEN [st |-> "ok", v |-> value]
    ELSE IF value.t = "dict" /\ Head(attrs) \in DOMAIN value.v
         THEN ApiWalk(value.v[Head(attrs)], Tail(attrs))
         ELSE [st |-> "default", v |-> Null]

\* base.py 128-131, tmdb.py 174-177
TrueWords(api) == IF api THEN {"t", "true", "1", "y", "yes"} ELSE {"t", "true"}

FalseWords(api) == IF api THEN {"f", "false", "0", "n", "no"} ELSE {"f", "false"}

\* base.py 125-133
CoerceBool(value, default, api) ==
    IF value.t = "bool" THEN Ok(value)
    ELSE LET s == PyStr(value) IN
         IF s.err # "none" THEN s
         ELSE IF Lower(s.v.v) \in TrueWords(api) THEN Ok(JBool(TRUE))
         ELSE IF Lower(s.v.v) \in FalseWords(api) THEN Ok(JBool(FALSE))
         ELSE Ok(default)

\* base.py 201-216: the array the aggregate kind spreads
AggKey(value_type) == IF value_type = "agg_tv_cast" THEN "roles" ELSE "jobs"

\* The shared keys win over the role's.
CoerceAgg_SharedWins(value, value_type) ==
    Ok(JList([i \in 1..Len(value.v[AggKey(value_type)].v) |->
                [t |-> "credit", v |-> value.v @@ value.v[AggKey(value_type)].v[i].v]]))

\* base.py 201-216: one Credit per role, built from a copy of the person's
\* dict updated with the role's items
CoerceAgg(value, value_type) ==
    IF value.t # "dict" THEN Raise("TypeError")
    ELSE IF AggKey(value_type) \notin DOMAIN value.v THEN Raise("KeyError")
    ELSE LET roles == value.v[AggKey(value_type)] IN
         CASE roles.t = "list" ->
                 IF \E i \in 1..Len(roles.v) : roles.v[i].t # "dict"
                 THEN Raise("AttributeError")
                 ELSE Ok(JList([i \in 1..Len(roles.v) |->
                                  [t |-> "credit", v |-> roles.v[i].v @@ value.v]]))
           [] roles.t \in {"null", "int", "float", "bool"} -> Raise("TypeError")
           [] roles.t \in {"str", "dict"} -> Raise("Unmodelled")

\* base.py 121-263: one value coerced to the kind the tag names
Coerce(value, value_type, default, api) ==
    CASE value_type = "int" -> PyInt(value)
      [] value_type = "float" -> PyFloat(value)
      [] value_type = "bool" -> CoerceBool(value, default, api)
      [] value_type = "dict" -> Ok(value)
      [] value_type = "str" -> PyStr(value)
      [] value_type = "movie_cast" -> Ok([t |-> "credit", v |-> value])
      [] value_type \in {"agg_tv_cast", "agg_tv_crew"} -> CoerceAgg(value, value_type)

\* The recursive call _parse(data=v, value_type=..., default_is_none=...) of
\* base.py 114/117/119: no attrs, no list flag; in the entity's dispatcher a
\* null element falls back to self._data (base.py 99).
ParseOne(selfData, v, value_type, default_is_none, api) ==
    LET value == IF ~api /\ v = Null THEN selfData ELSE v
        default == ParseDefault(value_type, default_is_none, FALSE)
    IN  IF value = Null THEN Ok(default) ELSE Coerce(value, value_type, default, api)

FirstError(outs) ==
    LET bad == {i \in 1..Len(outs) : outs[i].err # "none"}
    IN  IF bad = {} THEN "none"
        ELSE outs[CHOOSE i \in bad : \A j \in bad : i <= j].err

RECURSIVE Flatten(_)
Flatten(lists) == IF lists = <<>> THEN <<>> ELSE Head(lists) \o Flatten(Tail(lists))

\* base.py 116-117
ParseList(selfData, value, value_type, default_is_none, api) ==
    CASE value.t = "list" ->
            LET outs == [i \in 1..Len(value.v) |->
                            ParseOne(selfData, value.v[i], value_type, default_is_none, api)]
            IN  IF FirstError(outs) # "none" THEN Raise(FirstError(outs))
                ELSE Ok(JList([i \in 1..Len(value.v) |-> outs[i].v]))
      [] value.t \in {"int", "float", "bool"} -> Raise("TypeError")
      [] value.t \in {"str", "dict"} -> Raise("Unmodelled")

\* base.py 111-115: every element's coercion must itself be iterable
ParseExtend(selfData, value, value_type, default_is_none, api) ==
    CASE value.t = "list" ->
            LET outs == [i \in 1..Len(value.v) |->
                            LET r == ParseOne(selfData, value.v[i], value_type,
                                              default_is_none, api)
                            IN  IF r.err # "none" THEN r
                                ELSE IF r.v.t = "list" THEN r
                                ELSE IF r.v.t \in {"str", "dict"} THEN Raise("Unmodelled")
                                ELSE Raise("TypeError")]
            IN  IF FirstError(outs) # "none" THEN Raise(FirstError(outs))
                ELSE Ok(JList(Flatten([i \in 1..Len(value.v) |-> outs[i].v.v])))
      [] value.t \in {"int", "float", "bool"} -> Raise("TypeError")
      [] value.t \in {"str", "dict"} -> Raise("Unmodelled")

\* base.py 118-120
ParseDict(selfData, value, value_type, default_is_none, api) ==
    IF value.t # "dict" THEN Raise("AttributeError")
    ELSE LET outs == [k \in DOMAIN value.v |->
                         ParseOne(selfData, value.v[k], value_type, default_is_none, api)]
             bad == {k \in DOMAIN value.v : outs[k].err # "none"}
         IN  IF bad # {} THEN Raise(outs[CHOOSE k \in bad : TRUE].err)
             ELSE Ok(JDict([k \in DOMAIN value.v |-> outs[k].v]))

\* base.py 74-263 / tmdb.py 120-...: the whole dispatcher
Parse(selfData, data, attrs, value_type, default_is_none, is_list, is_dict, extend, api) ==
    LET default == ParseDefault(value_type, default_is_none, is_list)
        start == IF ~api /\ data = Null THEN selfData ELSE data
        w == IF attrs = <<>> THEN [st |-> "ok", v |-> start]
             ELSE IF api THEN ApiWalk(start, attrs) ELSE ObjWalk(start, attrs)
    IN  CASE w.st = "TypeError" -> Raise("TypeError")
          [] w.st = "default" -> Ok(default)
          [] w.st = "ok" ->
                IF w.v = Null THEN Ok(default)
                ELSE IF extend THEN ParseExtend(selfData, w.v, value_type, default_is_none, api)
                ELSE IF is_list THEN ParseList(selfData, w.v, value_type, default_is_none, api)
                ELSE IF is_dict THEN ParseDict(selfData, w.v, value_type, default_is_none, api)
                ELSE Coerce(w.v, value_type, default, api)

\* A variable group that a specification leaves alone holds this value.
Idle == [state |-> "idle"]

(***************************************************************************)
(* SpecParse: the dispatcher applied to bounded payloads and options       *)
(***************************************************************************)
ParseDocs ==
    { JDict(NoKeys),
      JDict("a" :> Null),
      JDict("a" :> JInt(7)),
      JDict("a" :> JStr("7")),
      JDict("a" :> JStr("x")),
      JDict("a" :> JBool(TRUE)),
      JDict("a" :> JList(<<>>)),
      JDict("a" :> JList(<<JInt(1), JStr("7")>>)),
      JDict("a" :> JDict(NoKeys)),
      JDict("a" :> JDict("b" :> Null)),
      JDict("a" :> JDict("b" :> JInt(5))),
      JDict("a" :> JDict("b" :> JList(<<JInt(1)>>))) }

ParsePaths == {<<"a">>, <<"a", "b">>, <<"c">>}

ParseInputs ==
    [data : ParseDocs, attrs : ParsePaths, value_type : ValueTypes,
     default_is_none : BOOLEAN, is_list : BOOLEAN, is_dict : BOOLEAN, extend : BOOLEAN]

\* self._parse(attrs=..., ...) on an entity whose _data is in.data, and
\* tmdb._parse(data=in.data, attrs=..., ...) on the facade
ParseCall(in, api) ==
    Parse(in.data, IF api THEN in.data ELSE Null, in.attrs, in.value_type,
          in.default_is_none, in.is_list, in.is_dict, in.extend, api)

Modelled(in) ==
    /\ ParseCall(in, FALSE).err # "Unmodelled"
    /\ ParseCall(in, TRUE).err # "Unmodelled"

InitParse ==
    /\ pin \in {in \in ParseInputs : Modelled(in)}
    /\ pout = [by |-> "none", r |-> Pending]
    /\ ent = Idle /\ remote = Idle /\ calls = 0 /\ elast = Idle
    /\ pg = Idle /\ rtotal = 0 /\ fetched = Idle /\ plast = Idle
    /\ eqin = Idle /\ eqout = Idle

ParseByEntity ==
    /\ pout.by = "none"
    /\ pout' = [by |-> "entity", r |-> ParseCall(pin, FALSE)]
    /\ UNCHANGED <<pin, entVars, pagVars, eqVars>>

ParseByFacade ==
    /\ pout.by = "none"
    /\ pout' = [by |-> "facade", r |-> ParseCall(pin, TRUE)]
    /\ UNCHANGED <<pin, entVars, pagVars, eqVars>>

NextParse == ParseByEntity \/ ParseByFacade

SpecParse == InitParse /\ [][NextParse]_vars

\* Whether the path of the call resolves: every key present, no null on the way
\* or at the end.
RECURSIVE Resolves(_, _)
Resolves(value, attrs) ==
    IF value = Null THEN FALSE
    ELSE IF attrs = <<>> THEN TRUE
    ELSE /\ value.t = "dict"
         /\ Head(attrs) \in DOMAIN value.v
         /\ Resolves(value.v[Head(attrs)], Tail(attrs))

\* The default the specification documents.
DocumentedDefault(in) ==
    IF in.default_is_none THEN Null
    ELSE IF in.value_type \in {"int", "float"} THEN JInt(0)
    ELSE IF in.is_list \/ in.extend THEN JList(<<>>)
    ELSE Null

\* C10: whenever the requested path does not resolve (a key is missing at some
\* level or the value there is null), the dispatcher returns the documented
\* default: 0 for int/float, an empty list for is_list or extend, None
\* otherwise, and None in every case with default_is_none.
C10_DefaultLaw ==
    (pout.by # "none" /\ ~Resolves(pin.data, pin.attrs))
        => pout.r = Ok(DocumentedDefault(pin))

(***************************************************************************)
(* SpecBool: the bool arm of both dispatchers on words and native bools    *)
(***************************************************************************)
BoolWords ==
    {"t", "T", "true", "TRUE", "True", "1", "y", "Y", "yes", "YES", "Yes",
     "f", "F", "false", "FALSE", "False", "0", "n", "N", "no", "NO", "No",
     "x", "None", "7", "5"}

BoolValues == {JBool(TRUE), JBool(FALSE)} \cup {JStr(w) : w \in BoolWords}

\* _parse(attrs="a", value_type="bool") on {"a": value}, or
\* _parse(data=value, value_type="bool")
BoolInputs == [value : BoolValues, default_is_none : BOOLEAN, keyed : BOOLEAN]

BoolCall(in, api) ==
    IF in.keyed
    THEN Parse(JDict("a" :> in.value), IF api THEN JDict("a" :> in.value) ELSE Null,
               <<"a">>, "bool", in.default_is_none, FALSE, FALSE, FALSE, api)
    ELSE Parse(Null, in.value, <<>>, "bool", in.default_is_none, FALSE, FALSE, FALSE, api)

InitBool ==
    /\ pin \in BoolInputs
    /\ pout = [by |-> "none", r |-> Pending]
    /\ ent = Idle /\ remote = Idle /\ calls = 0 /\ elast = Idle
    /\ pg = Idle /\ rtotal = 0 /\ fetched = Idle /\ plast = Idle
    /\ eqin = Idle /\ eqout = Idle

BoolByEntity ==
    /\ pout.by = "none"
    /\ pout' = [by |-> "entity", r |-> BoolCall(pin, FALSE)]
    /\ UNCHANGED <<pin, entVars, pagVars, eqVars>>

BoolByFacade ==
    /\ pout.by = "none"
    /\ pout' = [by |-> "facade", r |-> BoolCall(pin, TRUE)]
    /\ UNCHANGED <<pin, entVars, pagVars, eqVars>>

NextBool == BoolByEntity \/ BoolByFacade

SpecBool == InitBool /\ [][NextBool]_vars

(***************************************************************************)
(* SpecAgg: aggregate credits spread into Credit objects                   *)
(***************************************************************************)
MaxPersons == 2

MaxRoles == 2

SeqsUpTo(S, n) == UNION {[1..k -> S] : k \in 0..n}

\* One role (or job) of a person: its credit id, its character (or job) and
\* the episodes it covers; the i-th role of a person carries the i-th credit id
AggRole(i) ==
    [credit_id |-> <<"c1", "c2", "c3", "c4">>[i], label |-> "X", episode_count |-> 2]

AggRoles == {[i \in 1..k |-> AggRole(i)] : k \in 0..MaxRoles}

\* A person of the aggregate list; episode_count 0 stands for no such key at
\* the person's level
AggPersons ==
    [who : {[id |-> 1, name |-> "A"], [id |-> 5, name |-> "B"]},
     episode_count : {0, 9}, roles : AggRoles]

AggInputs ==
    [value_type : {"agg_tv_cast", "agg_tv_crew"}, persons : SeqsUpTo(AggPersons, MaxPersons)]

LabelKey(value_type) == IF value_type = "agg_tv_cast" THEN "character" ELSE "job"

RoleDoc(r, value_type) ==
    JDict(("credit_id" :> JStr(r.credit_id)) @@ (LabelKey(value_type) :> JStr(r.label))
          @@ ("episode_count" :> JInt(r.episode_count)))

PersonDoc(p, value_type) ==
    JDict(("id" :> JInt(p.who.id)) @@ ("name" :> JStr(p.who.name))
          @@ (IF p.episode_count = 0 THEN NoKeys
              ELSE "episode_count" :> JInt(p.episode_count))
          @@ (AggKey(value_type) :>
                JList([i \in 1..Len(p.roles) |-> RoleDoc(p.roles[i], value_type)])))

\* The payload Season._load reads: {"aggregate_credits": {"cast": [...]}}
AggDoc(in) ==
    JDict("aggregate_credits" :> JDict("cast" :>
        JList([i \in 1..Len(in.persons) |-> PersonDoc(in.persons[i], in.value_type)])))

\* reload.py 812-813: _parse(attrs=["aggregate_credits", "cast"],
\* value_type=..., extend=True)
AggCall(in, api) ==
    Parse(AggDoc(in), IF api THEN AggDoc(in) ELSE Null, <<"aggregate_credits", "cast">>,
          in.value_type, FALSE, FALSE, FALSE, TRUE, api)

\* reload.py 287-288: dict_check
DictCheck(data, dict_attr, attr) ==
    IF dict_attr \in DOMAIN data THEN <<dict_attr, attr>> ELSE <<attr>>

\* One assignment of Credit._load on the dict the Credit was built from
CreditField(data, attrs, value_type) ==
    Parse(JDict(data), Null, attrs, value_type, FALSE, FALSE, FALSE, FALSE, FALSE).v

\* Credit._load: the fields a role contributes to (reload.py 291-306)
CreditLoad(c) ==
    [id |-> CreditField(c.v, IF "credit_id" \in DOMAIN c.v THEN <<"credit_id">> ELSE <<"id">>, "str"),
     name |-> CreditField(c.v, DictCheck(c.v, "person", "name"), "str"),
     person_id |-> CreditField(c.v, DictCheck(c.v, "person", "id"), "int"),
     character |-> CreditField(c.v, DictCheck(c.v, "media", "character"), "str"),
     job |-> CreditField(c.v, <<"job">>, "str"),
     episode_count |-> IF "episode_count" \in DOMAIN c.v
                       THEN CreditField(c.v, <<"episode_count">>, "int") ELSE Null]

InitAgg ==
    /\ pin \in AggInputs
    /\ pout = [by |-> "none", r |-> Pending]
    /\ ent = Idle /\ remote = Idle /\ calls = 0 /\ elast = Idle
    /\ pg = Idle /\ rtotal = 0 /\ fetched = Idle /\ plast = Idle
    /\ eqin = Idle /\ eqout = Idle

AggByEntity ==
    /\ pout.by = "none"
    /\ pout' = [by |-> "entity", r |-> AggCall(pin, FALSE)]
    /\ UNCHANGED <<pin, entVars, pagVars, eqVars>>

AggByFacade ==
    /\ pout.by = "none"
    /\ pout' = [by |-> "facade", r |-> AggCall(pin, TRUE)]
    /\ UNCHANGED <<pin, entVars, pagVars, eqVars>>

NextAgg == AggByEntity \/ AggByFacade

SpecAgg == InitAgg /\ [][NextAgg]_vars

(***************************************************************************)
(* The lazy / partial entity protocol: TMDbObj, TMDbReload, Movie          *)
(***************************************************************************)
MaxCalls == 3

StubId == 11

\* What movies_get_details may answer besides the id: nothing, a full payload
\* under either of two titles, one whose vote_count is malformed, a bare title.
FullPayload(title, count) ==
    ("title" :> title) @@ ("vote_count" :> count)
        @@ ("credits" :> JDict("cast" :> JList(<<JDict("id" :> JInt(1))>>)))

RemotePayloads ==
    { NoKeys,
      FullPayload(JStr("A"), JInt(7)),
      FullPayload(JStr("B"), JInt(7)),
      FullPayload(JStr("A"), JStr("x")),
      "title" :> JStr("A") }

\* The fragments an entity is built from: a bare id, or an id with the title
\* a search result carries.
Fragments ==
    { JDict("id" :> JInt(StubId)),
      JDict(("id" :> JInt(StubId)) @@ ("title" :> JStr("A"))) }

PublicItems == {"id", "title", "name", "vote_count", "cast"}

InternalItems == {"_name"}

\* item.startswith("_")
IsInternal(item) == item \in InternalItems

NoAttrs == [id |-> Null, title |-> Null, name |-> Null, vote_count |-> Null, cast |-> Null]

NoEnt ==
    [state |-> "absent", loading |-> FALSE, partial |-> FALSE, name |-> Null,
     data |-> Null, attr |-> NoAttrs, lazy |-> 0]

\* TMDbObj.__init__ before it calls _load
FreshEnt ==
    [state |-> "live", loading |-> TRUE, partial |-> FALSE, name |-> Null,
     data |-> Null, attr |-> NoAttrs, lazy |-> 0]

\* The assignments of Movie._load the model keeps, in source order
\* (reload.py 544, 554, 585, 586, 593); alias: a copy of another attribute.
MovieFields ==
    << [name |-> "cast", attrs |-> <<"credits", "cast">>, vt |-> "movie_cast",
        il |-> TRUE, alias |-> ""],
       [name |-> "id", attrs |-> <<"id">>, vt |-> "int", il |-> FALSE, alias |-> ""],
       [name |-> "title", attrs |-> <<"title">>, vt |-> "str", il |-> FALSE, alias |-> ""],
       [name |-> "name", attrs |-> <<>>, vt |-> "str", il |-> FALSE, alias |-> "title"],
       [name |-> "vote_count", attrs |-> <<"vote_count">>, vt |-> "int",
        il |-> FALSE, alias |-> ""] >>

\* The value one assignment of _load computes
FieldValue(e, f) ==
    IF f.alias # "" THEN Ok(e.attr[f.alias])
    ELSE Parse(e.data, Null, f.attrs, f.vt, FALSE, f.il, FALSE, FALSE, FALSE)

\* self.<name> = self._parse(...) one after the other; a conversion error
\* leaves the later attributes as they were.
RECURSIVE Populate(_, _)
RECURSIVE PopulateWith(_, _, _)
Populate(e, fields) ==
    IF fields = <<>> THEN [ent |-> e, err |-> "none"]
    ELSE PopulateWith(e, fields, FieldValue(e, Head(fields)))

PopulateWith(e, fields, r) ==
    IF r.err # "none" THEN [ent |-> e, err |-> r.err]
    ELSE Populate([e EXCEPT !.attr[Head(fields).name] = r.v], Tail(fields))

\* TMDbObj._finish
Finish(e, name) == [e EXCEPT !.name = name, !.loading = FALSE]

\* reload.py 597: self._finish(self.title), reached when no assignment raised
FinishMovie(p) ==
    IF p.err # "none" THEN p
    ELSE [ent |-> Finish(p.ent, p.ent.attr.title), err |-> "none"]

\* TMDbObj._load followed by the body of Movie._load
MovieLoadBody(e, data) ==
    FinishMovie(Populate([e EXCEPT !.data = data, !.loading = TRUE, !.attr.id = Null],
                         MovieFields))

\* Movie._full_load: the details of self.id as the remote holds them now
FullLoad(e, rem) == JDict(("id" :> e.attr.id) @@ rem)

\* The flag is never cleared.
PartialAfterLoad_Kept(data) == TRUE

\* TMDbReload._load, line 17
PartialAfterLoad(data) == data # Null

\* TMDbReload._load: the flag first, then the fetch, then the population
ReloadLoad(e, data, rem, fail) ==
    LET e1 == [e EXCEPT !.partial = PartialAfterLoad(data)] IN
    IF data = Null /\ fail THEN [ent |-> e1, err |-> "TMDbException", sent |-> 1]
    ELSE MovieLoadBody(e1, IF data = Null THEN FullLoad(e1, rem) ELSE data)
            @@ [sent |-> IF data = Null THEN 1 ELSE 0]

\* A read goes to the remote whenever the stored value is None.
ShouldFetch_IgnoringPartial(item, loading, partial, value) ==
    ~(IsInternal(item) \/ loading \/ value # Null)

\* TMDbObj.__getattribute__, line 60: the read goes to the remote
ShouldFetch(item, loading, partial, value) ==
    ~(IsInternal(item) \/ loading \/ ~partial \/ value # Null)

\* Assignment allowed at any time.
MayAssign_Always(key, loading) == TRUE

\* TMDbObj.__setattr__, line 66
MayAssign(key, loading) == IsInternal(key) \/ loading

Stored(e, item) == IF IsInternal(item) THEN e.name ELSE e.attr[item]

Last(op, key, err, ret, sent, e, load) ==
    [op |-> op, key |-> key, err |-> err, ret |-> ret, sent |-> sent, load |-> load,
     prePartial |-> e.partial, preLoading |-> e.loading, preLazy |-> e.lazy,
     preValue |-> IF key = "" THEN Null ELSE Stored(e, key), served |-> remote]

InitEntity ==
    /\ ent = NoEnt
    /\ remote \in RemotePayloads
    /\ calls = 0
    /\ elast = Last("none", "", "none", Null, 0, NoEnt, FALSE)
    /\ pin = Idle /\ pout = Idle
    /\ pg = Idle /\ rtotal = 0 /\ fetched = Idle /\ plast = Idle
    /\ eqin = Idle /\ eqout = Idle

\* TMDbReload.__init__, lines 12-13: if load: self._load(None)
ConstructLoad(r1, load, fail) ==
    IF r1.err = "none" /\ load THEN ReloadLoad(r1.ent, Null, remote, fail) ELSE r1

ConstructEnd(r, load) ==
    /\ ent' = IF r.err = "none" THEN r.ent ELSE NoEnt
    /\ calls' = calls + r.sent
    /\ elast' = Last("construct", "", r.err, Null, r.sent, NoEnt, load)

\* Movie(tmdb, data, load): TMDbReload.__init__
Construct(data, load, fail) ==
    /\ ent.state = "absent"
    /\ load => calls < MaxCalls
    /\ ConstructEnd(ConstructLoad(ReloadLoad(FreshEnt, data, remote, FALSE), load, fail), load)
    /\ UNCHANGED <<remote, parseVars, pagVars, eqVars>>

\* base.py 62-63: self._load(None), then the attribute is read again
ReadFetched(item, r) ==
    /\ ent' = [r.ent EXCEPT !.lazy = @ + 1]
    /\ calls' = calls + r.sent
    /\ elast' = Last("read", item, r.err,
                     IF r.err = "none" THEN Stored(r.ent, item) ELSE Null,
                     r.sent, ent, FALSE)

\* value = obj.<item>: TMDbObj.__getattribute__
Read(item, fail) ==
    /\ ent.state = "live"
    /\ IF ShouldFetch(item, ent.loading, ent.partial, Stored(ent, item))
       THEN /\ calls < MaxCalls
            /\ ReadFetched(item, ReloadLoad(ent, Null, remote, fail))
       ELSE /\ ~fail
            /\ elast' = Last("read", item, "none", Stored(ent, item), 0, ent, FALSE)
            /\ UNCHANGED <<ent, calls>>
    /\ UNCHANGED <<remote, parseVars, pagVars, eqVars>>

\* obj.<key> = value: TMDbObj.__setattr__
SetAttr(key, value) ==
    /\ ent.state = "live"
    /\ IF MayAssign(key, ent.loading)
       THEN /\ ent' = IF IsInternal(key) THEN [ent EXCEPT !.name = value]
                      ELSE [ent EXCEPT !.attr[key] = value]
            /\ elast' = Last("setattr", key, "none", Null, 0, ent, FALSE)
       ELSE /\ elast' = Last("setattr", key, "AttributeError", Null, 0, ent, FALSE)
            /\ UNCHANGED ent
    /\ UNCHANGED <<remote, calls, parseVars, pagVars, eqVars>>

\* del obj.<key>: TMDbObj.__delattr__
DelAttr(key) ==
    /\ ent.state = "live"
    /\ elast' = Last("delattr", key, "AttributeError", Null, 0, ent, FALSE)
    /\ UNCHANGED <<ent, remote, calls, parseVars, pagVars, eqVars>>

ReloadEnd(r) ==
    /\ ent' = r.ent
    /\ calls' = calls + r.sent
    /\ elast' = Last("reload", "", r.err, Null, r.sent, ent, FALSE)

\* obj.reload(): TMDbReload.reload
Reload(fail) ==
    /\ ent.state = "live"
    /\ calls < MaxCalls
    /\ ReloadEnd(ReloadLoad(ent, Null, remote, fail))
    /\ UNCHANGED <<remote, parseVars, pagVars, eqVars>>

\* The remote changes what it holds for the movie.
RemoteEdit(rem) ==
    /\ rem # remote
    /\ remote' = rem
    /\ UNCHANGED <<ent, calls, elast, parseVars, pagVars, eqVars>>

NextEntity ==
    \/ \E d \in Fragments, load \in BOOLEAN, fail \in BOOLEAN : Construct(d, load, fail)
    \/ \E item \in PublicItems \cup InternalItems, fail \in BOOLEAN : Read(item, fail)
    \/ \E key \in {"title", "_name"} : SetAttr(key, JStr("Z"))
    \/ \E key \in {"title", "_name"} : DelAttr(key)
    \/ \E fail \in BOOLEAN : Reload(fail)
    \/ \E rem \in RemotePayloads : RemoteEdit(rem)

SpecEntity == InitEntity /\ [][NextEntity]_vars

(***************************************************************************)
(* SpecKinds: the same protocol for two entity kinds, Movie and Credit     *)
(***************************************************************************)
EntityKinds == {"Movie", "Credit"}

\* A Credit is built from a cast entry of a movie (id, name, credit_id) or from
\* one role of an aggregate credit (the person's fields under the role's).
CreditFragments ==
    { JDict(("id" :> JInt(5)) @@ ("name" :> JStr("A")) @@ ("credit_id" :> JStr("c1"))
            @@ ("character" :> JStr("X"))),
      JDict(("id" :> JInt(5)) @@ ("name" :> JStr("A")) @@ ("credit_id" :> JStr("c1"))
            @@ ("character" :> JStr("X")) @@ ("episode_count" :> JInt(9))) }

KindFragments(kind) == IF kind = "Movie" THEN Fragments ELSE CreditFragments

\* Credit._full_load: credits_get_details(self.id)
CreditFullLoad(e) ==
    JDict(("id" :> e.attr.id) @@ ("credit_type" :> JStr("cast"))
          @@ ("person" :> JDict(("id" :> JInt(5)) @@ ("name" :> JStr("A"))))
          @@ ("media" :> JDict("character" :> JStr("X"))))

NoCreditAttrs ==
    [id |-> Null, name |-> Null, person_id |-> Null, character |-> Null, job |-> Null,
     episode_count |-> Null]

\* An attribute _load does not assign keeps the value it had.
CreditAssign(old, new) ==
    [new EXCEPT !.episode_count = IF @ = Null THEN old.episode_count ELSE @]

\* TMDbObj._load followed by the body of Credit._load, which has no _finish
CreditLoadBody(e, data) ==
    [ent |-> [e EXCEPT !.data = data, !.loading = TRUE,
                       !.attr = CreditAssign(e.attr, CreditLoad(data))],
     err |-> "none"]

\* TMDbReload._load as Credit inherits it
CreditReloadLoad(e, data, fail) ==
    LET e1 == [e EXCEPT !.partial = PartialAfterLoad(data)] IN
    IF data = Null /\ fail THEN [ent |-> e1, err |-> "TMDbException", sent |-> 1]
    ELSE CreditLoadBody(e1, IF data = Null THEN CreditFullLoad(e1) ELSE data)
            @@ [sent |-> IF data = Null THEN 1 ELSE 0]

\* self._load(data) of the entity's class
KindLoad(e, data, rem, fail) ==
    IF e.kind = "Movie" THEN ReloadLoad(e, data, rem, fail)
    ELSE CreditReloadLoad(e, data, fail)

\* TMDbObj.__init__ of either class, before it calls _load
FreshKind(kind) ==
    [state |-> "live", kind |-> kind, loading |-> TRUE, partial |-> FALSE, name |-> Null,
     data |-> Null, attr |-> IF kind = "Movie" THEN NoAttrs ELSE NoCreditAttrs, lazy |-> 0]

NoKind == NoEnt @@ [kind |-> "none"]

InitKinds ==
    /\ ent = NoKind
    /\ remote \in RemotePayloads
    /\ calls = 0
    /\ elast = Last("none", "", "none", Null, 0, NoKind, FALSE)
    /\ pin = Idle /\ pout = Idle
    /\ pg = Idle /\ rtotal = 0 /\ fetched = Idle /\ plast = Idle
    /\ eqin = Idle /\ eqout = Idle

\* TMDbReload.__init__, lines 12-13
KConstructLoad(r1, load, fail) ==
    IF r1.err = "none" /\ load THEN KindLoad(r1.ent, Null, remote, fail) ELSE r1

KConstructEnd(r, load) ==
    /\ ent' = IF r.err = "none" THEN r.ent ELSE NoKind
    /\ calls' = calls + r.sent
    /\ elast' = Last("construct", "", r.err, Null, r.sent, NoKind, load)

\* Movie(tmdb, data, load) or Credit(tmdb, data, load=load)
KConstruct(kind, data, load, fail) ==
    /\ ent.state = "absent"
    /\ load => calls < MaxCalls
    /\ KConstructEnd(KConstructLoad(KindLoad(FreshKind(kind), data, remote, FALSE),
                                    load, fail), load)
    /\ UNCHANGED <<remote, parseVars, pagVars, eqVars>>

\* The attributes read: one the fragment carries, one it may lack
KindItems(kind) ==
    IF kind = "Movie" THEN {"id", "title"}
    ELSE IF kind = "Credit" THEN {"name", "job"} ELSE {}

KReadFetched(item, r) ==
    /\ ent' = [r.ent EXCEPT !.lazy = @ + 1]
    /\ calls' = calls + r.sent
    /\ elast' = Last("read", item, r.err,
                     IF r.err = "none" THEN Stored(r.ent, item) ELSE Null,
                     r.sent, ent, FALSE)

\* value = obj.<item>
KRead(item, fail) ==
    /\ ent.state = "live"
    /\ item \in KindItems(ent.kind)
    /\ IF ShouldFetch(item, ent.loading, ent.partial, Stored(ent, item))
       THEN /\ calls < MaxCalls
            /\ KReadFetched(item, KindLoad(ent, Null, remote, fail))
       ELSE /\ ~fail
            /\ elast' = Last("read", item, "none", Stored(ent, item), 0, ent, FALSE)
            /\ UNCHANGED <<ent, calls>>
    /\ UNCHANGED <<remote, parseVars, pagVars, eqVars>>

\* obj.<key> = value
KSetAttr(key, value) ==
    /\ ent.state = "live"
    /\ IF MayAssign(key, ent.loading)
       THEN /\ ent' = [ent EXCEPT !.attr[key] = value]
            /\ elast' = Last("setattr", key, "none", Null, 0, ent, FALSE)
       ELSE /\ elast' = Last("setattr", key, "AttributeError", Null, 0, ent, FALSE)
            /\ UNCHANGED ent
    /\ UNCHANGED <<remote, calls, parseVars, pagVars, eqVars>>

KReloadEnd(r) ==
    /\ ent' = r.ent
    /\ calls' = calls + r.sent
    /\ elast' = Last("reload", "", r.err, Null, r.sent, ent, FALSE)

\* obj.reload()
KReload(fail) ==
    /\ ent.state = "live"
    /\ calls < MaxCalls
    /\ KReloadEnd(KindLoad(ent, Null, remote, fail))
    /\ UNCHANGED <<remote, parseVars, pagVars, eqVars>>

NextKinds ==
    \/ \E kind \in EntityKinds, load \in BOOLEAN, fail \in BOOLEAN :
          \E d \in KindFragments(kind) : KConstruct(kind, d, load, fail)
    \/ \E item \in KindItems("Movie") \cup KindItems("Credit"), fail \in BOOLEAN :
          KRead(item, fail)
    \/ KSetAttr("name", JStr("Z"))
    \/ \E fail \in BOOLEAN : KReload(fail)

SpecKinds == InitKinds /\ [][NextKinds]_vars

(***************************************************************************)
(* Pagination controllers: TMDbPagination and four of its subclasses       *)
(***************************************************************************)
PageSize == 2

MaxResults == 5

MaxPage == (MaxResults + PageSize - 1) \div PageSize

PageArgs == 0..(MaxPage + 1)

Amounts == (-1)..(MaxResults + 1)

Min(a, b) == IF a < b THEN a ELSE b

Max(a, b) == IF a < b THEN b ELSE a

\* The remote holds R results, numbered 1..R, and serves them PageSize a page.
PageItems(p, R) ==
    [i \in 1..Max(0, Min(PageSize, R - (p - 1) * PageSize)) |-> (p - 1) * PageSize + i]

Response(p, R) ==
    [page |-> p, total_pages |-> (R + PageSize - 1) \div PageSize,
     total_results |-> R, results |-> PageItems(p, R)]

NoData == [page |-> 0, total_pages |-> 0, total_results |-> 0, results |-> <<>>]

\* DiscoverMovies and PopularMovies are built from nothing and fetch page 1,
\* MovieLists is built from the page its movie's details embed, SearchMovies
\* stands for the seven search controllers.
Kinds == {"DiscoverMovies", "PopularMovies", "MovieLists", "SearchMovies"}

IsSearch(kind) == kind = "SearchMovies"

\* PopularMovies(tmdb, region=None)
Regions(kind) == IF kind = "PopularMovies" THEN {Null, JStr("US")} ELSE {Null}

NoPages == [p \in {} |-> <<>>]

NoPg ==
    [state |-> "absent", kind |-> "", region |-> Null, loading |-> FALSE,
     partial |-> FALSE, hasPage |-> FALSE, page |-> 0, total_pages |-> 0,
     total_results |-> 0, results |-> <<>>, storage |-> NoPages]

\* TMDbPagination.__init__ and TMDbObj.__init__ before _load: page is not yet
\* an attribute of the object.
FreshPg(kind, region) ==
    [NoPg EXCEPT !.state = "live", !.kind = kind, !.region = region, !.loading = TRUE]

\* TMDbObj._load, pagination.py 32-46 and _finish on a payload
PgFill(c, data) ==
    [c EXCEPT !.loading = FALSE, !.hasPage = TRUE, !.page = data.page,
              !.total_pages = data.total_pages,
              !.total_results = data.total_results,
              !.results = data.results,
              !.storage = (data.page :> data.results) @@ c.storage]

\* One request to the remote for page p
Request(c, p, R, fail) ==
    IF fail THEN [c |-> c, err |-> "TMDbException", reqs |-> <<p>>, data |-> NoData]
    ELSE [c |-> c, err |-> "none", reqs |-> <<p>>, data |-> Response(p, R)]

\* SearchMovies._get_page: the request carries self.page, and an answer
\* without results raises NotFound.
SearchGet(c, R, fail) ==
    IF ~c.hasPage THEN [c |-> c, err |-> "AttributeError", reqs |-> <<>>, data |-> NoData]
    ELSE IF ~fail /\ R = 0
         THEN [c |-> c, err |-> "NotFound", reqs |-> <<c.page>>, data |-> NoData]
    ELSE Request(c, c.page, R, fail)

\* _get_page(page) when no attribute it reads goes to the remote
DirectGet(c, page, R, fail) ==
    IF IsSearch(c.kind) THEN SearchGet(c, R, fail) ELSE Request(c, page, R, fail)

LoadNoneEnd(g) ==
    IF g.err # "none" THEN [c |-> g.c, err |-> g.err, reqs |-> g.reqs]
    ELSE [c |-> PgFill(g.c, g.data), err |-> "none", reqs |-> g.reqs]

\* TMDbPagination._load(None): the flag is cleared before _get_page(1) runs
LoadNone(c, R, fail) ==
    LoadNoneEnd(DirectGet([c EXCEPT !.partial = PartialAfterLoad(Null)], 1, R, fail))

\* TMDbPagination._load(data) on a payload
LoadData(c, data) == PgFill([c EXCEPT !.partial = PartialAfterLoad(data)], data)

\* PopularMovies._get_page reads self.region through __getattribute__
ReadFetches(c) ==
    c.kind = "PopularMovies" /\ ShouldFetch("region", c.loading, c.partial, c.region)

PrependReqs(reqs, d) == [d EXCEPT !.reqs = reqs \o @]

GetAfter(l, page, R, fail) ==
    IF l.err # "none" THEN [c |-> l.c, err |-> l.err, reqs |-> l.reqs, data |-> NoData]
    ELSE PrependReqs(l.reqs, DirectGet(l.c, page, R, fail))

\* self._get_page(page) as load_page calls it; of the two requests a read that
\* fetches makes, the lost one is the first, or the second when late.
GetPage(c, page, R, fail, late) ==
    IF ReadFetches(c) THEN GetAfter(LoadNone(c, R, fail /\ ~late), page, R, fail /\ late)
    ELSE DirectGet(c, page, R, fail)

\* Page 0 let through.
PageInvalid_FromZero(page, total_pages) == page < 0 \/ page > total_pages

\* pagination.py 71
PageInvalid(page, total_pages) == page < 1 \/ page > total_pages

LoadPageEnd(g) ==
    IF g.err # "none" THEN [c |-> g.c, err |-> g.err, reqs |-> g.reqs]
    ELSE [c |-> LoadData(g.c, g.data), err |-> "none", reqs |-> g.reqs]

\* pagination.py 73-77
Cached(c, page) == page \in DOMAIN c.storage

\* TMDbPagination.load_page
LoadPage(c, page, R, fail, late) ==
    IF PageInvalid(page, c.total_pages) THEN [c |-> c, err |-> "Invalid", reqs |-> <<>>]
    ELSE IF Cached(c, page)
         THEN [c |-> [c EXCEPT !.results = c.storage[page], !.page = page,
                               !.loading = FALSE],
               err |-> "none", reqs |-> <<>>]
    ELSE LoadPageEnd(GetPage(c, page, R, fail, late))

\* pagination.py 57
NoNext(page, total_pages) == page + 1 > total_pages

\* TMDbPagination.load_next
LoadNext(c, R, fail, late) ==
    IF NoNext(c.page, c.total_pages) THEN [c |-> c, err |-> "NotFound", reqs |-> <<>>]
    ELSE LoadPage(c, c.page + 1, R, fail, late)

\* pagination.py 109-112
Extend(results, page_results, amount) ==
    IF Len(results) + Len(page_results) < amount THEN results \o page_results
    ELSE results \o SubSeq(page_results, 1, amount - Len(results))

\* The while loop of get_results, pagination.py 106-112
RECURSIVE Collect(_, _, _, _, _, _, _)
RECURSIVE CollectStep(_, _, _, _, _, _, _)
Collect(c, amount, results, current_page, R, fail, reqs) ==
    IF Len(results) < amount /\ current_page < c.total_pages
    THEN CollectStep(LoadPage(c, current_page + 1, R, fail /\ reqs = <<>>, FALSE),
                     amount, results, current_page + 1, R, fail, reqs)
    ELSE [c |-> c, err |-> "none", reqs |-> reqs, ret |-> results,
          visited |-> current_page]

CollectStep(l, amount, results, current_page, R, fail, reqs) ==
    IF l.err # "none"
    THEN [c |-> l.c, err |-> l.err, reqs |-> reqs \o l.reqs, ret |-> <<>>,
          visited |-> current_page]
    ELSE Collect(l.c, amount, Extend(results, l.c.results, amount), current_page,
                 R, fail, reqs \o l.reqs)

\* pagination.py 100-101
Clamp(amount, total_results) == IF amount > total_results THEN total_results ELSE amount

\* The walk starts at the current page.
GetResults_FromCurrent(c, amount, R, fail) ==
    IF Clamp(amount, c.total_results) < 1
    THEN [c |-> c, err |-> "Invalid", reqs |-> <<>>, ret |-> <<>>, visited |-> 0]
    ELSE Collect(c, Clamp(amount, c.total_results), <<>>, c.page - 1, R, fail, <<>>)

\* TMDbPagination.get_results
GetResults(c, amount, R, fail) ==
    IF Clamp(amount, c.total_results) < 1
    THEN [c |-> c, err |-> "Invalid", reqs |-> <<>>, ret |-> <<>>, visited |-> 0]
    ELSE Collect(c, Clamp(amount, c.total_results), <<>>, 0, R, fail, <<>>)

\* How often the remote has answered a request for each page
NoFetches == [p \in PageArgs |-> 0]

Answered(reqs, err) ==
    IF err = "TMDbException" /\ reqs # <<>> THEN SubSeq(reqs, 1, Len(reqs) - 1) ELSE reqs

Occurrences(seq, p) == Cardinality({i \in DOMAIN seq : seq[i] = p})

Count(cnt, reqs, err) == [p \in PageArgs |-> cnt[p] + Occurrences(Answered(reqs, err), p)]

PLast(op, arg, r, ret, visited, fail) ==
    [op |-> op, arg |-> arg, kind |-> r.c.kind, err |-> r.err, reqs |-> r.reqs,
     ret |-> ret, visited |-> visited, failed |-> fail,
     served |-> IF op = "construct" THEN rtotal ELSE 0,
     prePage |-> pg.page, preT |-> pg.total_pages, preR |-> pg.total_results,
     preResults |-> pg.results,
     preStorage |-> pg.storage,
     preCached |-> arg \in DOMAIN pg.storage,
     preStored |-> IF arg \in DOMAIN pg.storage THEN pg.storage[arg] ELSE <<>>]

NoOp == [c |-> NoPg, err |-> "none", reqs |-> <<>>]

InitPage ==
    /\ pg = NoPg
    /\ rtotal \in 0..MaxResults
    /\ fetched = [cnt |-> NoFetches, changed |-> FALSE, collected |-> FALSE, reads |-> 0,
                  kept |-> NoPages]
    /\ plast = [PLast("none", 0, NoOp, <<>>, 0, FALSE) EXCEPT !.preCached = FALSE]
    /\ pin = Idle /\ pout = Idle
    /\ ent = Idle /\ remote = Idle /\ calls = 0 /\ elast = Idle
    /\ eqin = Idle /\ eqout = Idle

\* The request the operation was to lose was sent
Lost(r, fail) == fail => r.err = "TMDbException"

PConstructEnd(r, fail) ==
    /\ Lost(r, fail)
    /\ pg' = IF r.err = "none" THEN r.c ELSE NoPg
    /\ fetched' = [fetched EXCEPT !.cnt = Count(@, r.reqs, r.err)]
    /\ plast' = PLast("construct", 0, r, <<>>, 0, fail)

\* Kind(tmdb, ...): the subclass __init__, TMDbPagination.__init__, _load
PConstruct(kind, region, fail) ==
    /\ pg.state = "absent"
    /\ PConstructEnd(IF kind = "MovieLists"
                     THEN [c |-> LoadData(FreshPg(kind, region), Response(1, rtotal)),
                           err |-> "none", reqs |-> <<>>]
                     ELSE LoadNone(FreshPg(kind, region), rtotal, fail), fail)
    /\ UNCHANGED <<rtotal, parseVars, entVars, eqVars>>

POpEnd(op, arg, r, ret, visited, fail) ==
    /\ Lost(r, fail)
    /\ pg' = r.c
    /\ fetched' = [fetched EXCEPT !.cnt = Count(@, r.reqs, r.err),
                                  !.collected = @ \/ op = "get_results"]
    /\ plast' = PLast(op, arg, r, ret, visited, fail)

\* controller.load_page(n)
PLoadPage(n, fail, late) ==
    /\ pg.state = "live"
    /\ late => fail
    /\ POpEnd("load_page", n, LoadPage(pg, n, rtotal, fail, late), <<>>, 0, fail)
    /\ UNCHANGED <<rtotal, parseVars, entVars, eqVars>>

\* controller.load_next()
PLoadNext(fail, late) ==
    /\ pg.state = "live"
    /\ late => fail
    /\ POpEnd("load_next", pg.page + 1, LoadNext(pg, rtotal, fail, late), <<>>, 0, fail)
    /\ UNCHANGED <<rtotal, parseVars, entVars, eqVars>>

PGetResultsEnd(amount, r, fail) == POpEnd("get_results", amount, r, r.ret, r.visited, fail)

\* controller.get_results(amount)
PGetResults(amount, fail) ==
    /\ pg.state = "live"
    /\ PGetResultsEnd(amount, GetResults(pg, amount, rtotal, fail), fail)
    /\ UNCHANGED <<rtotal, parseVars, entVars, eqVars>>

\* The remote gains or loses results.
RemoteChange(R) ==
    /\ R # rtotal
    /\ rtotal' = R
    /\ fetched' = [fetched EXCEPT !.changed = pg.state = "live"]
    /\ UNCHANGED <<pg, plast, parseVars, entVars, eqVars>>

NextPage ==
    \/ \E kind \in Kinds, fail \in BOOLEAN :
          \E region \in Regions(kind) : PConstruct(kind, region, fail)
    \/ \E n \in PageArgs, fail \in BOOLEAN, late \in BOOLEAN : PLoadPage(n, fail, late)
    \/ \E fail \in BOOLEAN, late \in BOOLEAN : PLoadNext(fail, late)
    \/ \E amount \in Amounts, fail \in BOOLEAN : PGetResults(amount, fail)
    \/ \E R \in 0..MaxResults : RemoteChange(R)

SpecPage == InitPage /\ [][NextPage]_vars

(***************************************************************************)
(* Attribute reads on a controller: id (also read by str() and ==), page   *)
(* and region, between load_page calls                                     *)
(***************************************************************************)
CtlItems == {"id", "page", "region"}

\* base.py 24-27: id is None after _load, and no controller of Kinds sets it
CtlValue(c, item) ==
    CASE item = "id" -> Null
      [] item = "page" -> JInt(c.page)
      [] item = "region" -> c.region

\* base.py 58-63 on a controller
CtlGet(c, item, R) ==
    IF ShouldFetch(item, c.loading, c.partial, CtlValue(c, item))
    THEN LoadNone(c, R, FALSE)
    ELSE [c |-> c, err |-> "none", reqs |-> <<>>]

PReadEnd(item, r) ==
    /\ pg' = r.c
    /\ fetched' = [fetched EXCEPT !.cnt = Count(@, r.reqs, r.err),
                                  !.reads = Min(@ + Len(r.reqs), 2)]
    /\ plast' = [op |-> "read", arg |-> item, err |-> r.err, reqs |-> r.reqs,
                 after |-> IF plast.err = "none" THEN plast.op ELSE "failed",
                 prePage |-> pg.page, preResults |-> pg.results]

\* controller.<item>, str(controller), controller == other
PRead(item) ==
    /\ pg.state = "live"
    /\ PReadEnd(item, CtlGet(pg, item, rtotal))
    /\ UNCHANGED <<rtotal, parseVars, entVars, eqVars>>

NextCtl ==
    \/ \E kind \in Kinds : \E region \in Regions(kind) : PConstruct(kind, region, FALSE)
    \/ \E n \in PageArgs : PLoadPage(n, FALSE, FALSE)
    \/ PLoadNext(FALSE, FALSE)
    \/ \E item \in CtlItems : PRead(item)

SpecCtl == InitPage /\ [][NextCtl]_vars

(***************************************************************************)
(* A v4 TMDbList as a controller: tmdb.list(list_id, load=True), its pages *)
(* and reload(), while the list on the remote grows and shrinks            *)
(***************************************************************************)
\* pagination.py 32-46 on the stub {"id": list_id}: int fields default to 0
StubPage == [page |-> 0, total_pages |-> 0, total_results |-> 0, results |-> <<>>]

\* TMDbList.__init__ with load=True: _load(stub), then _load(None)
ListConstruct(R) == LoadNone(LoadData(FreshPg("TMDbList", Null), StubPage), R, FALSE)

\* The cache is emptied before the refetch.
ListReloadPages_Cleared(c, R, fail) == LoadNone([c EXCEPT !.storage = NoPages], R, fail)

\* TMDbList.reload, pagination.py 717-719
ListReloadPages(c, R, fail) == LoadNone(c, R, fail)

\* tmdb.list(list_id, load=True)
PListConstruct ==
    /\ pg.state = "absent"
    /\ PConstructEnd(ListConstruct(rtotal), FALSE)
    /\ UNCHANGED <<rtotal, parseVars, entVars, eqVars>>

PReloadEnd(r, fail) ==
    /\ Lost(r, fail)
    /\ pg' = r.c
    /\ fetched' = [fetched EXCEPT
                      !.kept = IF r.err # "none" THEN @
                               ELSE [p \in DOMAIN pg.storage \ {1} |-> pg.storage[p]]]
    /\ plast' = PLast("reload", 1, r, <<>>, 0, fail)

\* lst.reload()
PReload(fail) ==
    /\ pg.state = "live"
    /\ PReloadEnd(ListReloadPages(pg, rtotal, fail), fail)
    /\ UNCHANGED <<rtotal, parseVars, entVars, eqVars>>

\* Items are added to or removed from the list, once in the object's life
ListEdit(R) ==
    /\ pg.state = "live" /\ ~fetched.changed
    /\ RemoteChange(R)

NextListPages ==
    \/ PListConstruct
    \/ \E n \in PageArgs : PLoadPage(n, FALSE, FALSE)
    \/ \E fail \in BOOLEAN : PReload(fail)
    \/ \E R \in 0..MaxResults : ListEdit(R)

SpecListPages == InitPage /\ [][NextListPages]_vars


(***************************************************************************)
(* The transport: API3._request and API4._request                          *)
(***************************************************************************)
\* What the HTTP session hands back: no response at all, a body that is not
\* JSON, or a JSON object under a status code.  TMDb's error envelope carries
\* status_message together with status_code and with success false.
HttpStatuses == {200, 201, 400, 401, 404, 422, 500}

\* 0: the body has no status_code
ApiCodes == {0, 7, 34, 36, 39}

Successes == {"absent", "true", "false"}

Responses ==
    { [kind |-> k, status |-> 0, code |-> 0, errors |-> FALSE, success |-> "absent"] :
          k \in {"no_connection", "not_json"} }
    \cup [kind : {"json"}, status : HttpStatuses, code : ApiCodes, errors : BOOLEAN,
          success : Successes]

\* self.response.json()
ResponseJson(resp) ==
    JDict([k \in (IF resp.code # 0 THEN {"status_code", "status_message"} ELSE {})
                 \cup (IF resp.success = "false" THEN {"status_message"} ELSE {})
                 \cup (IF resp.errors THEN {"errors"} ELSE {})
                 \cup (IF resp.success # "absent" THEN {"success"} ELSE {}) |->
             CASE k = "status_code" -> JInt(resp.code)
               [] k = "status_message" -> JStr("message")
               [] k = "errors" -> JList(<<JStr("e")>>)
               [] OTHER -> JBool(resp.success = "true")])

\* api3.py 86-98: the chain on response.status_code and response_json
Api3Classify(status, response_json) ==
    IF status = 401
    THEN IF "status_code" \in DOMAIN response_json.v
         THEN IF response_json.v["status_code"] = JInt(36) THEN Raise("WritePermission")
              ELSE IF response_json.v["status_code"] = JInt(39) THEN Raise("PrivateResource")
              ELSE IF response_json.v["status_code"] = JInt(7) THEN Raise("Unauthorized")
              ELSE Raise("TMDbException")
         ELSE Raise("TMDbException")
    ELSE IF status = 404 THEN Raise("NotFound")
    ELSE IF status >= 400 THEN Raise("TMDbException")
    ELSE IF "errors" \in DOMAIN response_json.v THEN Raise("TMDbException")
    ELSE IF "success" \in DOMAIN response_json.v /\ response_json.v["success"] = JBool(FALSE)
         THEN Raise("TMDbException")
    ELSE Ok(response_json)

\* API3._request, api3.py 58-99
Api3Request(resp) ==
    IF resp.kind # "json" THEN Raise("TMDbException")
    ELSE Api3Classify(resp.status, ResponseJson(resp))

\* The chain with code 39 left to the generic arm.
Api4Classify_NoPrivate(status, response_json) ==
    IF status = 401 /\ "status_code" \in DOMAIN response_json.v
                    /\ response_json.v["status_code"] = JInt(39)
    THEN Raise("TMDbException")
    ELSE Api3Classify(status, response_json)

\* api4.py 84-96: the chain on response.status_code and response_json
Api4Classify(status, response_json) ==
    IF status = 401
    THEN IF "status_code" \in DOMAIN response_json.v
         THEN IF response_json.v["status_code"] = JInt(36) THEN Raise("WritePermission")
              ELSE IF response_json.v["status_code"] = JInt(39) THEN Raise("PrivateResource")
              ELSE IF response_json.v["status_code"] = JInt(7) THEN Raise("Unauthorized")
              ELSE Raise("TMDbException")
         ELSE Raise("TMDbException")
    ELSE IF status = 404 THEN Raise("NotFound")
    ELSE IF status >= 400 THEN Raise("TMDbException")
    ELSE IF "errors" \in DOMAIN response_json.v THEN Raise("TMDbException")
    ELSE IF "success" \in DOMAIN response_json.v /\ response_json.v["success"] = JBool(FALSE)
         THEN Raise("TMDbException")
    ELSE Ok(response_json)

\* API4._request, api4.py 56-99
Api4Request(resp) ==
    IF resp.kind # "json" THEN Raise("TMDbException")
    ELSE Api4Classify(resp.status, ResponseJson(resp))

InitTransport ==
    /\ pin \in Responses
    /\ pout = [by |-> "none", r |-> Pending]
    /\ ent = Idle /\ remote = Idle /\ calls = 0 /\ elast = Idle
    /\ pg = Idle /\ rtotal = 0 /\ fetched = Idle /\ plast = Idle
    /\ eqin = Idle /\ eqout = Idle

\* A request through the v3 transport meets the response
RequestByApi3 ==
    /\ pout.by = "none"
    /\ pout' = [by |-> "api3", r |-> Api3Request(pin)]
    /\ UNCHANGED <<pin, entVars, pagVars, eqVars>>

\* A request through the v4 transport meets the response
RequestByApi4 ==
    /\ pout.by = "none"
    /\ pout' = [by |-> "api4", r |-> Api4Request(pin)]
    /\ UNCHANGED <<pin, entVars, pagVars, eqVars>>

NextTransport == RequestByApi3 \/ RequestByApi4

SpecTransport == InitTransport /\ [][NextTransport]_vars

(***************************************************************************)
(* Credentials and TMDbList: the facade's v3 session and v4 handle, the    *)
(* v4 write-access protocol, and a list object mutated through either API  *)
(***************************************************************************)
\* API4 objects the facade may create over its life (v4_access makes a new one)
MaxApi4 == 2

\* The token handed to v4_access: rejected by the remote, a read token, or a
\* token the user has already approved for writing.
TokenKinds == {"bad", "read", "write"}

MediaTypes == {"movie", "tv"}

\* name / description arguments of update(); None leaves the field alone
UpdateArgs == {Null, JStr("N2")}

\* The remote: the list as it is stored, and whether the user has approved
\* the request token handed out last.
RemoteLists ==
    [alive : {TRUE}, name : {JStr("L")}, description : {JStr("")},
     items : SUBSET {"movie"}, approved : {FALSE}]

\* TMDbAPIs.__init__, tmdb.py 69-71, without a v4 token
Facades == [api4 : {0}, session : BOOLEAN, request_token : {FALSE}, account : {FALSE}]

NoList ==
    [state |-> "absent", api4 |-> 0, partial |-> FALSE, name |-> Null,
     description |-> Null, total_results |-> Null]

\* api4.py 101-103 on the object a handle names; 0 is None
HasWriteToken(objs, h) == h # 0 /\ objs[h]

\* Any attached API4 passes, also where write access is asked for.
V4Check_ReadSuffices(fac, objs, write) ==
    IF fac.api4 = 0 THEN "Authentication" ELSE "none"

\* tmdb.py 478-483
V4Check(fac, objs, write) ==
    IF fac.api4 = 0 THEN "Authentication"
    ELSE IF write /\ ~HasWriteToken(objs, fac.api4) THEN "Authentication"
    ELSE "none"

\* The converted session is returned but not kept.
SessionId_NotStored(fac, objs) ==
    IF fac.session THEN [err |-> "none", reqs |-> <<>>, fac |-> fac]
    ELSE IF HasWriteToken(objs, fac.api4)
         THEN [err |-> "none", reqs |-> <<"v3:session_from_v4">>, fac |-> fac]
    ELSE [err |-> "Authentication", reqs |-> <<>>, fac |-> fac]

\* api3.py 103-110: the session id, made from the v4 write token when missing
SessionId(fac, objs) ==
    IF fac.session THEN [err |-> "none", reqs |-> <<>>, fac |-> fac]
    ELSE IF HasWriteToken(objs, fac.api4)
         THEN [err |-> "none", reqs |-> <<"v3:session_from_v4">>,
               fac |-> [fac EXCEPT !.session = TRUE]]
    ELSE [err |-> "Authentication", reqs |-> <<>>, fac |-> fac]

\* The list as the remote answers a read of it, in either shape
ListPayload(rem) ==
    [name |-> rem.name, description |-> rem.description,
     total_results |-> JInt(Cardinality(rem.items))]

\* The assignments of TMDbList._load the model keeps (pagination.py 32-46,
\* 677-684) on the stub {"id": list_id}: int fields default to 0, str to None
StubPayload == [name |-> Null, description |-> Null, total_results |-> JInt(0)]

ListFill(l, data) ==
    [l EXCEPT !.name = data.name, !.description = data.description,
              !.total_results = data.total_results]

\* TMDbList._get_page: v4 shape when the object holds an API4, else v3
ListGetPage(l) == IF l.api4 # 0 THEN "v4:list_get_list" ELSE "v3:lists_get_details"

\* TMDbList._load(data), pagination.py 666-701
ListLoad(l, data, rem) ==
    IF data # Null
    THEN [l |-> ListFill([l EXCEPT !.partial = PartialAfterLoad(data)], StubPayload),
          err |-> "none", reqs |-> <<>>]
    ELSE IF ~rem.alive
         THEN [l |-> [l EXCEPT !.partial = PartialAfterLoad(data)], err |-> "NotFound",
               reqs |-> <<ListGetPage(l)>>]
    ELSE [l |-> ListFill([l EXCEPT !.partial = PartialAfterLoad(data)], ListPayload(rem)),
          err |-> "none", reqs |-> <<ListGetPage(l)>>]

\* What one mutation does to the stored list
Mutate(rem, op, arg) ==
    CASE op = "add" -> [rem EXCEPT !.items = @ \cup {arg}]
      [] op = "remove" -> [rem EXCEPT !.items = @ \ {arg}]
      [] op = "clear" -> [rem EXCEPT !.items = {}]
      [] op = "delete" -> [rem EXCEPT !.alive = FALSE, !.items = {}]
      [] OTHER -> [rem EXCEPT !.name = IF arg.name = Null THEN @ ELSE arg.name,
                              !.description = IF arg.description = Null THEN @
                                              ELSE arg.description]

V4Endpoint(op) ==
    CASE op = "add" -> "v4:list_add_items"
      [] op = "remove" -> "v4:list_remove_items"
      [] op = "clear" -> "v4:list_clear_list"
      [] op = "delete" -> "v4:list_delete_list"
      [] OTHER -> "v4:list_update_list"

V3Endpoint(op) ==
    CASE op = "add" -> "v3:lists_add_movie"
      [] op = "remove" -> "v3:lists_remove_movie"
      [] op = "clear" -> "v3:lists_clear_list"
      [] OTHER -> "v3:lists_delete_list"

\* A request of the v4 family under the token of API4 object h
V4Call(fac, objs, rem, h, op, arg) ==
    IF ~objs[h] THEN [err |-> "WritePermission", reqs |-> <<V4Endpoint(op)>>,
                      fac |-> fac, rem |-> rem]
    ELSE IF ~rem.alive THEN [err |-> "NotFound", reqs |-> <<V4Endpoint(op)>>,
                             fac |-> fac, rem |-> rem]
    ELSE [err |-> "none", reqs |-> <<V4Endpoint(op)>>, fac |-> fac,
          rem |-> Mutate(rem, op, arg)]

V3Send(s, rem, op) ==
    IF s.err # "none" THEN [err |-> s.err, reqs |-> s.reqs, fac |-> s.fac, rem |-> rem]
    ELSE IF ~rem.alive THEN [err |-> "NotFound", reqs |-> s.reqs \o <<V3Endpoint(op)>>,
                             fac |-> s.fac, rem |-> rem]
    ELSE [err |-> "none", reqs |-> s.reqs \o <<V3Endpoint(op)>>, fac |-> s.fac,
          rem |-> Mutate(rem, op, "movie")]

\* A request of the v3 family: the session id is an argument of the call
V3Call(fac, objs, rem, op) == V3Send(SessionId(fac, objs), rem, op)

\* The choice between the two families as the list object always makes it.
UsesV4_WhenAttached(objs, l) == l.api4 # 0

\* pagination.py 805, 827, 853, 860: if self._api4 and self._api4.has_write_token
UsesV4(objs, l) == l.api4 # 0 /\ objs[l.api4]

\* TMDbList._check_item for a tuple (id, media_type); the family chosen after
CheckItem(fac, objs, media_type) ==
    IF media_type = "tv" THEN V4Check(fac, objs, FALSE) ELSE "none"

\* add_items, remove_items, clear, delete of TMDbList
ListMutation(fac, objs, rem, l, op, arg) ==
    IF op \in {"add", "remove"} /\ CheckItem(fac, objs, arg) # "none"
    THEN [err |-> CheckItem(fac, objs, arg), reqs |-> <<>>, fac |-> fac, rem |-> rem]
    ELSE IF UsesV4(objs, l) THEN V4Call(fac, objs, rem, l.api4, op, arg)
    ELSE V3Call(fac, objs, rem, op)

\* TMDbList.update, pagination.py 721-744
ListUpdate(fac, objs, rem, arg) ==
    IF arg.name = Null /\ arg.description = Null
    THEN [err |-> "Invalid", reqs |-> <<>>, fac |-> fac, rem |-> rem]
    ELSE IF V4Check(fac, objs, FALSE) # "none"
         THEN [err |-> "Authentication", reqs |-> <<>>, fac |-> fac, rem |-> rem]
    ELSE V4Call(fac, objs, rem, fac.api4, "update", arg)

AuthLast(op, arg, err, reqs, ret) ==
    [op |-> op, arg |-> arg, err |-> err, reqs |-> reqs, ret |-> ret,
     preListWrite |-> ent.list.state = "live" /\ HasWriteToken(ent.objs, ent.list.api4),
     preWrite |-> HasWriteToken(ent.objs, ent.tmdb.api4),
     preApi4 |-> ent.tmdb.api4 # 0,
     preSession |-> ent.tmdb.session,
     preToken |-> ent.tmdb.request_token]

InitAuth ==
    /\ ent \in [tmdb : Facades, objs : {<<>>}, list : {NoList}]
    /\ remote \in RemoteLists
    /\ calls = 0
    /\ elast = [op |-> "none", arg |-> Null, err |-> "none", reqs |-> <<>>, ret |-> Null,
                preListWrite |-> FALSE, preWrite |-> FALSE, preApi4 |-> FALSE,
                preSession |-> FALSE, preToken |-> FALSE]
    /\ pin = Idle /\ pout = Idle
    /\ pg = Idle /\ rtotal = 0 /\ fetched = Idle /\ plast = Idle
    /\ eqin = Idle /\ eqout = Idle

\* tmdb.v4_access(token): API4.__init__ validates the token (api4.py 29-38)
V4Access(kind) ==
    /\ Len(ent.objs) < MaxApi4
    /\ IF kind = "bad"
       THEN /\ elast' = AuthLast("v4_access", JStr(kind), "TMDbException",
                                 <<"v4:auth_create_access_token", "v4:auth_create_request_token">>,
                                 Null)
            /\ UNCHANGED ent
       ELSE /\ ent' = [ent EXCEPT !.objs = Append(@, kind = "write"),
                                  !.tmdb.api4 = Len(ent.objs) + 1]
            /\ elast' = AuthLast("v4_access", JStr(kind), "none",
                                 IF kind = "write" THEN <<"v4:auth_create_access_token">>
                                 ELSE <<"v4:auth_create_access_token",
                                        "v4:auth_create_request_token">>, Null)
    /\ UNCHANGED <<remote, calls, parseVars, pagVars, eqVars>>

\* tmdb.v4_authenticate(), tmdb.py 485-488
V4Authenticate ==
    /\ IF V4Check(ent.tmdb, ent.objs, FALSE) # "none"
       THEN /\ elast' = AuthLast("v4_authenticate", Null, "Authentication", <<>>, Null)
            /\ UNCHANGED <<ent, remote>>
       ELSE /\ ent' = [ent EXCEPT !.tmdb.request_token = TRUE]
            /\ remote' = [remote EXCEPT !.approved = FALSE]
            /\ elast' = AuthLast("v4_authenticate", Null, "none",
                                 <<"v4:auth_create_request_token">>, JStr("url"))
    /\ UNCHANGED <<calls, parseVars, pagVars, eqVars>>

\* The user approves the request token at the returned URL.
UserApproves ==
    /\ ent.tmdb.request_token /\ ~remote.approved
    /\ remote' = [remote EXCEPT !.approved = TRUE]
    /\ UNCHANGED <<ent, calls, elast, parseVars, pagVars, eqVars>>

\* tmdb.v4_approved(), tmdb.py 490-494 and api4.py 262-275
V4Approved ==
    /\ IF ~ent.tmdb.request_token
       THEN /\ elast' = AuthLast("v4_approved", Null, "Authentication", <<>>, Null)
            /\ UNCHANGED ent
       ELSE IF ~remote.approved
            THEN /\ elast' = AuthLast("v4_approved", Null, "TMDbException",
                                      <<"v4:auth_create_access_token">>, Null)
                 /\ UNCHANGED ent
       ELSE /\ ent' = [ent EXCEPT !.objs[ent.tmdb.api4] = TRUE]
            /\ elast' = AuthLast("v4_approved", Null, "none",
                                 <<"v4:auth_create_access_token">>, Null)
    /\ UNCHANGED <<remote, calls, parseVars, pagVars, eqVars>>

\* tmdb.movie_recommendations(): MovieRecommendations._get_page(1) on
\* construction, pagination.py 265-278
Recommendations ==
    /\ IF V4Check(ent.tmdb, ent.objs, TRUE) # "none"
       THEN elast' = AuthLast("movie_recommendations", Null, "Authentication", <<>>, Null)
       ELSE elast' = AuthLast("movie_recommendations", Null, "none",
                              <<"v4:account_get_movie_recommendations">>, Null)
    /\ UNCHANGED <<ent, remote, calls, parseVars, pagVars, eqVars>>

GetListLoad(r1, load) ==
    IF load THEN ListLoad(r1.l, Null, remote) ELSE r1

GetListEnd(r, load) ==
    /\ ent' = [ent EXCEPT !.list = IF r.err = "none" THEN r.l ELSE NoList]
    /\ elast' = AuthLast("list", JBool(load), r.err, r.reqs, Null)

\* tmdb.list(list_id, load): TMDbList(self, {"id": list_id}, load=load),
\* which keeps the facade's API4 of the moment (base.py 20)
GetList(load) ==
    /\ ent.list.state = "absent"
    /\ GetListEnd(GetListLoad(ListLoad([NoList EXCEPT !.state = "live",
                                                      !.api4 = ent.tmdb.api4],
                                       JDict("id" :> JInt(1)), remote), load), load)
    /\ UNCHANGED <<remote, calls, parseVars, pagVars, eqVars>>

MutationEnd(op, arg, r) ==
    /\ ent' = [ent EXCEPT !.tmdb = r.fac]
    /\ remote' = r.rem
    /\ elast' = AuthLast(op, arg, r.err, r.reqs, Null)

\* lst.add_items((1, media_type)), lst.remove_items((1, media_type))
ItemsOp(op, media_type) ==
    /\ ent.list.state = "live"
    /\ MutationEnd(op, JStr(media_type),
                   ListMutation(ent.tmdb, ent.objs, remote, ent.list, op, media_type))
    /\ UNCHANGED <<calls, parseVars, pagVars, eqVars>>

\* lst.clear(), lst.delete()
WholeOp(op) ==
    /\ ent.list.state = "live"
    /\ MutationEnd(op, Null, ListMutation(ent.tmdb, ent.objs, remote, ent.list, op, Null))
    /\ UNCHANGED <<calls, parseVars, pagVars, eqVars>>

\* lst.update(name=..., description=...)
Update(name, description) ==
    /\ ent.list.state = "live"
    /\ MutationEnd("update", [name |-> name, description |-> description],
                   ListUpdate(ent.tmdb, ent.objs, remote,
                              [name |-> name, description |-> description]))
    /\ UNCHANGED <<calls, parseVars, pagVars, eqVars>>

\* base.py 58-63 on the list object: the stored value, or a load and then it
ListGet(l, item, rem) ==
    IF ShouldFetch(item, FALSE, l.partial, l[item]) THEN ListLoad(l, Null, rem)
    ELSE [l |-> l, err |-> "none", reqs |-> <<>>]

ListReadEnd(item, r) ==
    /\ ent' = [ent EXCEPT !.list = r.l]
    /\ elast' = AuthLast("read", JStr(item), r.err, r.reqs,
                         IF r.err = "none" THEN r.l[item] ELSE Null)

\* len(lst) is lst.total_results; lst.name; lst.description
ListRead(item) ==
    /\ ent.list.state = "live"
    /\ ListReadEnd(item, ListGet(ent.list, item, remote))
    /\ UNCHANGED <<remote, calls, parseVars, pagVars, eqVars>>

ListReloadEnd(r) ==
    /\ ent' = [ent EXCEPT !.list = r.l]
    /\ elast' = AuthLast("reload", Null, r.err, r.reqs, Null)

\* lst.reload(), pagination.py 717-719
ListReload ==
    /\ ent.list.state = "live"
    /\ ListReloadEnd(ListLoad(ent.list, Null, remote))
    /\ UNCHANGED <<remote, calls, parseVars, pagVars, eqVars>>

\* api3.py 112-116 on the session id just obtained
AccountWith(s) ==
    IF s.err # "none" THEN s
    ELSE [err |-> "none", reqs |-> s.reqs \o <<"v3:account_get_details">>,
          fac |-> [s.fac EXCEPT !.account = TRUE]]

\* API3.account_id
AccountId(fac, objs) ==
    IF fac.account THEN [err |-> "none", reqs |-> <<>>, fac |-> fac]
    ELSE AccountWith(SessionId(fac, objs))

CredentialEnd(op, r) ==
    /\ ent' = [ent EXCEPT !.tmdb = r.fac]
    /\ elast' = AuthLast(op, Null, r.err, r.reqs,
                         IF r.err = "none" THEN JStr(op) ELSE Null)

\* tmdb.session_id
ReadSessionId ==
    /\ CredentialEnd("session_id", SessionId(ent.tmdb, ent.objs))
    /\ UNCHANGED <<remote, calls, parseVars, pagVars, eqVars>>

\* tmdb.account_id
ReadAccountId ==
    /\ CredentialEnd("account_id", AccountId(ent.tmdb, ent.objs))
    /\ UNCHANGED <<remote, calls, parseVars, pagVars, eqVars>>

NextAuth ==
    \/ ReadSessionId
    \/ ReadAccountId
    \/ \E kind \in TokenKinds : V4Access(kind)
    \/ V4Authenticate
    \/ UserApproves
    \/ V4Approved
    \/ Recommendations
    \/ \E load \in BOOLEAN : GetList(load)
    \/ \E op \in {"add", "remove"}, media_type \in MediaTypes : ItemsOp(op, media_type)
    \/ \E op \in {"clear", "delete"} : WholeOp(op)
    \/ \E name \in UpdateArgs, description \in UpdateArgs : Update(name, description)
    \/ \E item \in {"total_results", "name", "description"} : ListRead(item)
    \/ ListReload

SpecAuth == InitAuth /\ [][NextAuth]_vars

(***************************************************************************)
(* The facade's language and include_language setters.  A string is a      *)
(* sequence of pieces: whole language tags, or the comma                   *)
(***************************************************************************)
\* Longest string handed to a setter, in pieces
MaxPieces == 3

Pieces == {"en", "EN", "en-US", "en-us", "None", "null", "zz", ","}

LangStrings == {JStr(s) : s \in UNION {[1..n -> Pieces] : n \in 0..MaxPieces}}

\* tmdb.py 84: the configuration's languages, keyed in lower case
Iso6391 == {<<"en">>}

\* tmdb.py 85: the configuration's primary translations, keyed in lower case
Translations == [s \in {<<"en-us">>} |-> <<"en-US">>]

\* str(lang).lower(), piece by piece
LowerStr(s) == [i \in 1..Len(s) |-> Lower(s[i])]

\* tmdb.py 329-333
ValidateTranslation(translation) ==
    IF LowerStr(translation) \in DOMAIN Translations
    THEN Ok(Translations[LowerStr(translation)])
    ELSE Raise("Invalid")

\* The stored code is kept as typed.
LanguageOf_AsTyped(lang) ==
    IF LowerStr(lang) \in Iso6391 THEN Ok(lang)
    ELSE ValidateTranslation(lang)

\* tmdb.py 424-430: one language tag
LanguageOf(lang) ==
    IF LowerStr(lang) \in Iso6391 THEN Ok(LowerStr(lang))
    ELSE ValidateTranslation(lang)

\* tmdb.py 406-413: one element of include_language
IncludeOf(lang) ==
    IF LowerStr(lang) \in {<<"null">>, <<"none">>} THEN Ok(<<"null">>)
    ELSE LanguageOf(lang)

HasComma(s) == \E i \in 1..Len(s) : s[i] = ","

FirstComma(s) == CHOOSE i \in 1..Len(s) : s[i] = "," /\ \A j \in 1..(i - 1) : s[j] # ","

\* str.split(",")
RECURSIVE SplitComma(_)
SplitComma(s) ==
    IF ~HasComma(s) THEN <<s>>
    ELSE <<SubSeq(s, 1, FirstComma(s) - 1)>>
             \o SplitComma(SubSeq(s, FirstComma(s) + 1, Len(s)))

\* ",".join(final)
RECURSIVE JoinComma(_)
JoinComma(final) ==
    IF final = <<>> THEN <<>>
    ELSE IF Len(final) = 1 THEN final[1]
    ELSE final[1] \o <<",">> \o JoinComma(Tail(final))

\* tmdb.py 405-414 over the split elements
IncludeJoin(outs) ==
    IF \E i \in 1..Len(outs) : outs[i].err # "none" THEN Raise("Invalid")
    ELSE Ok(JoinComma([i \in 1..Len(outs) |-> outs[i].v]))

IncludeEach(els) == IncludeJoin([i \in 1..Len(els) |-> IncludeOf(els[i])])

\* The string a setter keeps
AsStr(r) == IF r.err = "none" THEN Ok(JStr(r.v)) ELSE r

\* tmdb.py 398-414: the value include_language takes, or Invalid
IncludeLanguageOf(include_language) ==
    IF include_language = Null THEN Ok(Null)
    ELSE AsStr(IncludeEach(SplitComma(include_language.v)))

\* tmdb.py 420-430: the value language takes, or Invalid
SetLanguageOf(lang) ==
    IF lang = Null THEN Ok(Null) ELSE AsStr(LanguageOf(lang.v))

LangLast(op, arg, r, pre) ==
    [op |-> op, arg |-> arg, pre |-> pre, err |-> r.err]

\* Values earlier assignments have left in the facade
StoredLanguages == {Null, JStr(<<"en">>), JStr(<<"en-US">>)}

StoredIncludes == {Null, JStr(<<"en">>), JStr(<<"null", ",", "en-US">>)}

\* The assignment about to be made, on a facade holding earlier values
InitLang ==
    /\ pin \in [attr : {"language", "include_language"}, arg : {Null} \cup LangStrings]
    /\ ent \in [language : StoredLanguages, include_language : StoredIncludes]
    /\ elast = LangLast("none", Null, Ok(Null), Null)
    /\ pout = Idle /\ remote = Idle /\ calls = 0
    /\ pg = Idle /\ rtotal = 0 /\ fetched = Idle /\ plast = Idle
    /\ eqin = Idle /\ eqout = Idle

SetLanguageEnd(lang, r) ==
    /\ ent' = IF r.err = "none" THEN [ent EXCEPT !.language = r.v] ELSE ent
    /\ elast' = LangLast("language", lang, r, ent.language)

\* tmdb.language = lang
SetLanguage ==
    /\ pin.attr = "language" /\ elast.op = "none"
    /\ SetLanguageEnd(pin.arg, SetLanguageOf(pin.arg))
    /\ UNCHANGED <<remote, calls, parseVars, pagVars, eqVars>>

SetIncludeEnd(include_language, r) ==
    /\ ent' = IF r.err = "none" THEN [ent EXCEPT !.include_language = r.v] ELSE ent
    /\ elast' = LangLast("include_language", include_language, r, ent.include_language)

\* tmdb.include_language = include_language
SetIncludeLanguage ==
    /\ pin.attr = "include_language" /\ elast.op = "none"
    /\ SetIncludeEnd(pin.arg, IncludeLanguageOf(pin.arg))
    /\ UNCHANGED <<remote, calls, parseVars, pagVars, eqVars>>

NextLang == SetLanguage \/ SetIncludeLanguage

SpecLang == InitLang /\ [][NextLang]_vars

(***************************************************************************)
(* Rate.rate on a Movie, TVShow or Episode.  Ratings are in tenths.        *)
(***************************************************************************)
\* mixin.py 29: 0.5 and 10.0, in tenths
MinRating == 5

MaxRating == 100

Ratings == {-5, 0, 4, 5, 6, 85, 99, 100, 101, 110}

RateKinds == {"Movie", "TVShow", "Episode"}

\* The lowest rating itself is refused.
RatingInvalid_Exclusive(rating) == rating <= MinRating \/ rating > MaxRating

\* mixin.py 28-32: float(rating) < 0.5 or float(rating) > 10.0
RatingInvalid(rating) == rating < MinRating \/ rating > MaxRating

\* reload.py 408-409, 610-611, 993-994: the endpoint _rate posts to
RateEndpoint(kind) ==
    CASE kind = "Movie" -> "v3:movies_rate_movie"
      [] kind = "TVShow" -> "v3:tv_rate_tv_show"
      [] kind = "Episode" -> "v3:tv_episodes_rate_tv_episode"

\* api3.py 1516-1521: the session id is read before the rating is posted
RatePost(kind, rating, s) ==
    [err |-> s.err, fac |-> s.fac,
     reqs |-> [i \in 1..Len(s.reqs) |-> [endpoint |-> s.reqs[i], value |-> Null]]
                  \o (IF s.err = "none"
                      THEN <<[endpoint |-> RateEndpoint(kind), value |-> JFloat(rating)]>>
                      ELSE <<>>)]

\* mixin.py 22-33
RateOf(kind, rating, fac, objs) ==
    IF RatingInvalid(rating) THEN [err |-> "Invalid", fac |-> fac, reqs |-> <<>>]
    ELSE RatePost(kind, rating, SessionId(fac, objs))

RateLast(op, rating, r) ==
    [op |-> op, rating |-> rating, err |-> r.err, reqs |-> r.reqs,
     preSession |-> ent.tmdb.session,
     preWrite |-> HasWriteToken(ent.objs, ent.tmdb.api4)]

\* A loaded entity of a rateable kind on a facade with or without credentials
InitRate ==
    /\ ent \in [kind : RateKinds, objs : {<<>>, <<FALSE>>, <<TRUE>>},
                 tmdb : [api4 : {0, 1}, session : BOOLEAN,
                         request_token : {FALSE}, account : {FALSE}]]
    /\ (ent.tmdb.api4 = 1) = (ent.objs # <<>>)
    /\ elast = [op |-> "none", rating |-> 0, err |-> "none", reqs |-> <<>>,
                preSession |-> ent.tmdb.session,
                preWrite |-> HasWriteToken(ent.objs, ent.tmdb.api4)]
    /\ pin = Idle /\ pout = Idle /\ remote = Idle /\ calls = 0
    /\ pg = Idle /\ rtotal = 0 /\ fetched = Idle /\ plast = Idle
    /\ eqin = Idle /\ eqout = Idle

RateEnd(rating, r) ==
    /\ ent' = [ent EXCEPT !.tmdb = r.fac]
    /\ elast' = RateLast("rate", rating, r)

\* obj.rate(rating)
Rate(rating) ==
    /\ RateEnd(rating, RateOf(ent.kind, rating, ent.tmdb, ent.objs))
    /\ UNCHANGED <<remote, calls, parseVars, pagVars, eqVars>>

NextRate == \E rating \in Ratings : Rate(rating)

SpecRate == InitRate /\ [][NextRate]_vars

(***************************************************************************)
(* Equality: TMDbObj.__eq__                                                *)
(***************************************************************************)
JObj(cls, id, name) == [t |-> "obj", v |-> [cls |-> cls, id |-> id, name |-> name]]

EqClasses == {"Movie", "Collection"}

EqIds == {Null, JInt(5), JInt(7)}

EqNames == {Null, JStr("A"), JStr("None"), JStr("5")}

EqObjects == {JObj(cls, id, name) : cls \in EqClasses, id \in EqIds, name \in EqNames}

EqOthers ==
    EqObjects \cup {JInt(5), JInt(7)} \cup {JStr("A"), JStr("B"), JStr("None"), JStr("5")}

\* TMDbObj.__str__; the bracketed text of an object with an id is outside the
\* vocabulary.
ObjStr(o) ==
    IF o.id # Null /\ o.id.v # 0 THEN Raise("Unmodelled")
    ELSE IF o.name = Null THEN Raise("TypeError")
    ELSE Ok(o.name)

\* str(other) at base.py 56
StrOfOther(other) == IF other.t = "obj" THEN ObjStr(other.v) ELSE PyStr(other)

EqStrings(a, b) ==
    IF a.err # "none" THEN a ELSE IF b.err # "none" THEN b ELSE Ok(JBool(a.v = b.v))

\* TMDbObj.__eq__
Eq(self, other) ==
    IF other.t = "obj" /\ other.v.cls = self.v.cls
    THEN IF self.v.id = Null /\ other.v.id = Null
         THEN Ok(JBool(self.v.name = other.v.name))
         ELSE IF self.v.id # Null /\ other.v.id # Null
              THEN Ok(JBool(self.v.id = other.v.id))
              ELSE Ok(JBool(FALSE))
    ELSE IF other.t = "int" /\ self.v.id # Null
         THEN Ok(JBool(self.v.id = other))
    ELSE EqStrings(PyStr(self.v.name), StrOfOther(other))

EqModelled(in) == Eq(in.self, in.other).err # "Unmodelled"

InitEq ==
    /\ eqin \in {in \in [self : EqObjects, other : EqOthers] : EqModelled(in)}
    /\ eqout = Pending
    /\ pin = Idle /\ pout = Idle
    /\ ent = Idle /\ remote = Idle /\ calls = 0 /\ elast = Idle
    /\ pg = Idle /\ rtotal = 0 /\ fetched = Idle /\ plast = Idle

\* self == other
Compare ==
    /\ eqout = Pending
    /\ eqout' = Eq(eqin.self, eqin.other)
    /\ UNCHANGED <<eqin, parseVars, entVars, pagVars>>

NextEq == Compare

SpecEq == InitEq /\ [][NextEq]_vars

(***************************************************************************)
(* Equality of entities built from payloads with and without an id         *)
(***************************************************************************)
\* Season coerces id as int (reload.py 822), Video as str (simple.py 364),
\* Country never assigns it (simple.py 61-66)
IdKinds == {"Season", "Video", "Country"}

IdPayloads ==
    {JDict("name" :> n) : n \in {JStr("A"), JStr("B")}}
        \cup {JDict(("id" :> i) @@ ("name" :> n)) :
                 i \in {Null, JInt(0), JInt(5)}, n \in {JStr("A"), JStr("B")}}

IdOthers == IdPayloads \cup {JInt(0), JInt(5), JStr("A")}

\* self.id after _load: base.py 27, then the kind's own assignment if any
IdField(kind, data) ==
    CASE kind = "Season" -> Parse(data, Null, <<"id">>, "int", FALSE, FALSE, FALSE, FALSE, FALSE)
      [] kind = "Video" -> Parse(data, Null, <<"id">>, "str", FALSE, FALSE, FALSE, FALSE, FALSE)
      [] OTHER -> Ok(Null)

\* self.name = self._parse(attrs="name"); self._finish(self.name)
NameField(data) == Parse(data, Null, <<"name">>, "str", FALSE, FALSE, FALSE, FALSE, FALSE)

\* Kind(tmdb, data) as __eq__ sees it
BuildEntity(kind, data) == JObj(kind, IdField(kind, data).v, NameField(data).v)

BuildOther(kind, other) == IF other.t = "dict" THEN BuildEntity(kind, other) ELSE other

InitIdEq ==
    /\ eqin \in [kind : IdKinds, data : IdPayloads, other : IdOthers]
    /\ eqout = Pending
    /\ pin = Idle /\ pout = Idle
    /\ ent = Idle /\ remote = Idle /\ calls = 0 /\ elast = Idle
    /\ pg = Idle /\ rtotal = 0 /\ fetched = Idle /\ plast = Idle

CompareBuiltEnd(self, other) ==
    eqout' = [self |-> self, other |-> other, r |-> Eq(self, other)]

\* Kind(tmdb, data) == other
CompareBuilt ==
    /\ eqout = Pending
    /\ CompareBuiltEnd(BuildEntity(eqin.kind, eqin.data), BuildOther(eqin.kind, eqin.other))
    /\ UNCHANGED <<eqin, parseVars, entVars, pagVars>>

NextIdEq == CompareBuilt

SpecIdEq == InitIdEq /\ [][NextIdEq]_vars


IsDefaultValue(x) == x = Null \/ x = JInt(0) \/ x = JList(<<>>)

SettledPartialRead ==
    /\ elast.op = "read"
    /\ elast.key \in PublicItems
    /\ elast.prePartial
    /\ ~elast.preLoading

\* C1: on a settled partial stub, the first read of any public field whose
\* stored value is None, 0 or an empty list sends exactly one full-load call,
\* and no read after that lazy load sends another.
C1_DefaultReadLoadsOnce ==
    /\ (SettledPartialRead /\ IsDefaultValue(elast.preValue)) => elast.sent = 1
    /\ (elast.op = "read" /\ elast.preLazy >= 1) => elast.sent = 0

TitleOf(rem) == IF "title" \in DOMAIN rem THEN rem["title"] ELSE Null

C3_SettledImmutable ==
    (elast.op \in {"setattr", "delattr"} /\ ~IsInternal(elast.key) /\ ~elast.preLoading)
        => /\ elast.err = "AttributeError"
           /\ Stored(ent, elast.key) = elast.preValue

\* An assignment to .title refused on a settled partial stub that holds a title.
C3_Witness ==
    /\ elast.op = "setattr" /\ elast.key = "title"
    /\ ~elast.preLoading /\ elast.prePartial
    /\ elast.err = "AttributeError"
    /\ ent.attr.title = JStr("A")

OutOfRange(n, T) == n < 1 \/ n > T

\* C4: load_page(n) raises Invalid exactly when n < 1 or n > total_pages, and
\* then sends nothing and leaves page and results as they were; for every n in
\* range it succeeds on page n unless the remote fails; load_next() raises
\* NotFound exactly when page + 1 > total_pages.
C4_RangeChecks ==
    /\ plast.op = "load_page" =>
         /\ plast.err = "Invalid" <=> OutOfRange(plast.arg, plast.preT)
         /\ plast.err = "Invalid" =>
              /\ plast.reqs = <<>>
              /\ pg.page = plast.prePage
              /\ pg.results = plast.preResults
         /\ (~OutOfRange(plast.arg, plast.preT) /\ ~plast.failed) =>
              plast.err = "none" /\ pg.page = plast.arg
    /\ plast.op = "load_next" =>
         (plast.err = "NotFound" <=> plast.prePage + 1 > plast.preT)

\* load_page(T + 1) refused on a controller of more than one page.
C4_Witness ==
    /\ plast.op = "load_page" /\ plast.preT > 1
    /\ plast.arg = plast.preT + 1
    /\ plast.err = "Invalid"
    /\ pg.page = plast.prePage /\ pg.page > 1

\* C5: load_page(n) on a cached page sends no request and restores that
\* page's results and number; and as long as only load_page and load_next have
\* been called on the controller, the remote has answered at most one request
\* for each page number.
C5_FetchedOnce ==
    /\ (plast.op = "load_page" /\ plast.preCached /\ plast.err # "Invalid") =>
         /\ plast.err = "none" /\ plast.reqs = <<>>
         /\ pg.page = plast.arg /\ pg.results = plast.preStored
    /\ ~fetched.collected => \A p \in PageArgs : fetched.cnt[p] <= 1

FirstItems(n) == [i \in 1..n |-> i]

PagesFor(n) == (n + PageSize - 1) \div PageSize

\* C6: against a remote that has not changed, get_results(amount) raises
\* Invalid if amount < 1; otherwise, unless the remote fails, it returns the
\* first min(amount, total_results) results in order and visits exactly the
\* pages needed to collect them.
C6_GetResults ==
    (plast.op = "get_results" /\ ~fetched.changed) =>
        /\ plast.arg < 1 => plast.err = "Invalid"
        /\ (plast.arg >= 1 /\ ~plast.failed) =>
             /\ plast.err = "none"
             /\ plast.ret = FirstItems(Min(plast.arg, plast.preR))
             /\ plast.visited = PagesFor(Min(plast.arg, plast.preR))

\* C7: building a search controller while the remote answers raises NotFound
\* when the query has no results, and otherwise yields a controller on page 1
\* with a positive total.
C7_SearchConstruct ==
    (plast.op = "construct" /\ IsSearch(plast.kind) /\ ~plast.failed) =>
        /\ plast.served = 0 => plast.err = "NotFound" /\ pg.state = "absent"
        /\ plast.served > 0 =>
             /\ plast.err = "none" /\ pg.state = "live"
             /\ pg.page = 1 /\ pg.total_results > 0

\* The number of consecutive load_next() calls that succeed from c
RECURSIVE NextRun(_, _)
NextRun(c, R) ==
    IF LoadNext(c, R, FALSE, FALSE).err = "none" THEN 1 + NextRun(LoadNext(c, R, FALSE, FALSE).c, R)
    ELSE 0

RECURSIVE NextStop(_, _)
NextStop(c, R) ==
    IF LoadNext(c, R, FALSE, FALSE).err = "none" THEN NextStop(LoadNext(c, R, FALSE, FALSE).c, R)
    ELSE LoadNext(c, R, FALSE, FALSE).err

\* C8: a controller of every kind, search included, can be built on a query
\* with results; a successful load_next() moves it one page on; and from page p
\* of T, against an unchanged remote, exactly T - p calls of load_next()
\* succeed before one raises NotFound.
C8_NextExhausts ==
    /\ (plast.op = "construct" /\ ~plast.failed /\ plast.served > 0) => pg.state = "live"
    /\ (plast.op = "load_next" /\ plast.err = "none") => pg.page = plast.prePage + 1
    /\ (pg.state = "live" /\ ~fetched.changed /\ pg.page <= pg.total_pages) =>
         /\ NextRun(pg, rtotal) = pg.total_pages - pg.page
         /\ NextStop(pg, rtotal) = "NotFound"

Defined(x) == x # Null

\* C9: two entities of one class are equal iff both ids are defined and equal
\* or both are undefined and the names are equal; an entity with a defined id
\* equals an integer exactly when the integer is its id; an entity equals a
\* string exactly when the string is its display name.
C9_Equality ==
    eqout # Pending =>
        /\ (eqin.other.t = "obj" /\ eqin.other.v.cls = eqin.self.v.cls) =>
             eqout = Ok(JBool(
                 \/ /\ Defined(eqin.self.v.id) /\ Defined(eqin.other.v.id)
                    /\ eqin.self.v.id = eqin.other.v.id
                 \/ /\ ~Defined(eqin.self.v.id) /\ ~Defined(eqin.other.v.id)
                    /\ eqin.self.v.name = eqin.other.v.name))
        /\ (eqin.other.t = "int" /\ Defined(eqin.self.v.id)) =>
             eqout = Ok(JBool(eqin.self.v.id = eqin.other))
        /\ eqin.other.t = "str" =>
             eqout = Ok(JBool(eqin.self.v.name = eqin.other))

TrueVariants == {"t", "T", "true", "TRUE", "True", "1", "y", "Y", "yes", "YES", "Yes"}

FalseVariants == {"f", "F", "false", "FALSE", "False", "0", "n", "N", "no", "NO", "No"}

\* C11: in both dispatchers the bool coercion returns true for native True and
\* every case variant of t, true, 1, y, yes, false for native False and every
\* case variant of f, false, 0, n, no, and None for every other string.
C11_BoolWords ==
    pout.by # "none" =>
        pout.r = Ok(IF pin.value.t = "bool" THEN pin.value
                    ELSE IF pin.value.v \in TrueVariants THEN JBool(TRUE)
                    ELSE IF pin.value.v \in FalseVariants THEN JBool(FALSE)
                    ELSE Null)

\* The credit a role of a person is to become
ExpectedCredit(p, r, value_type) ==
    [id |-> JStr(r.credit_id), name |-> JStr(p.who.name), person_id |-> JInt(p.who.id),
     character |-> IF value_type = "agg_tv_cast" THEN JStr(r.label) ELSE Null,
     job |-> IF value_type = "agg_tv_crew" THEN JStr(r.label) ELSE Null,
     episode_count |-> JInt(r.episode_count)]

RECURSIVE ExpectedCredits(_, _)
ExpectedCredits(persons, value_type) ==
    IF persons = <<>> THEN <<>>
    ELSE [i \in 1..Len(Head(persons).roles) |->
             ExpectedCredit(Head(persons), Head(persons).roles[i], value_type)]
         \o ExpectedCredits(Tail(persons), value_type)

FieldOf(rem, key, default) == IF key \in DOMAIN rem THEN rem[key] ELSE default

C14_PageInRange ==
    (pg.state = "live" /\ pg.total_pages > 0) => (1 <= pg.page /\ pg.page <= pg.total_pages)


\* C15: for every entity kind, when construction or a reload returns normally
\* the entity is settled (loading flag false) and its display name is the
\* kind's name field, so that assignment is refused from then on.
C15_SettledAfterLoad ==
    (ent.state = "live" /\ elast.op \in {"construct", "reload"} /\ elast.err = "none") =>
        /\ ~ent.loading
        /\ ent.name = ent.attr.name
        /\ ~MayAssign("name", ent.loading)

\* C16: when the page fetch raises during load_page(n) or load_next(), the
\* error reaches the caller and page, results, total_pages, total_results and
\* the page cache are what they were before the call.
C16_FailedFetchKeepsState ==
    (plast.op \in {"load_page", "load_next"} /\ plast.failed) =>
        /\ plast.err = "TMDbException"
        /\ pg.page = plast.prePage
        /\ pg.results = plast.preResults
        /\ pg.total_pages = plast.preT
        /\ pg.total_results = plast.preR
        /\ pg.storage = plast.preStorage

\* The error the taxonomy assigns to a response that is not returned
TaxonomyError(resp) ==
    IF resp.kind # "json" THEN "TMDbException"
    ELSE IF resp.status = 401 /\ resp.code = 36 THEN "WritePermission"
    ELSE IF resp.status = 401 /\ resp.code = 39 THEN "PrivateResource"
    ELSE IF resp.status = 401 /\ resp.code = 7 THEN "Unauthorized"
    ELSE IF resp.status = 404 THEN "NotFound"
    ELSE "TMDbException"

Returnable(resp) ==
    resp.kind = "json" /\ resp.status < 400 /\ ~resp.errors /\ resp.success # "false"

\* C17: either transport returns the parsed JSON exactly for a response below
\* HTTP 400 without an errors field and without success false, and raises for
\* every other response the one error of the taxonomy: 401 with code 36
\* WritePermission, 39 PrivateResource, 7 Unauthorized, 404 NotFound, anything
\* else and a lost or non-JSON response TMDbException.
C17_Transport ==
    pout.by # "none" =>
        pout.r = IF Returnable(pin) THEN Ok(ResponseJson(pin))
                 ELSE Raise(TaxonomyError(pin))

C17_Witness ==
    /\ pout.by = "api4"
    /\ pin.kind = "json" /\ pin.status = 401 /\ pin.code = 39 /\ pin.errors
    /\ pout.r = Raise("PrivateResource")

\* What a read of the list object returns in the current state
ReadNow(item) == ListGet(ent.list, item, remote).l[item]

Returned(op) == elast.op = op /\ elast.err = "none"

\* C18: after add_items, clear or update returns, the list object it was
\* called on shows the change without a reload: len(list) is above 0 after an
\* add and 0 after a clear, name and description are the values passed to
\* update.
C18_MutationVisible ==
    /\ Returned("add") => ReadNow("total_results").v > 0
    /\ Returned("clear") => ReadNow("total_results").v = 0
    /\ (Returned("update") /\ elast.arg.name # Null) => ReadNow("name") = elast.arg.name
    /\ (Returned("update") /\ elast.arg.description # Null) =>
            ReadNow("description") = elast.arg.description

ListMutations == {"add", "remove", "clear", "delete"}

Sent(reqs, endpoints) == \E i \in DOMAIN reqs : reqs[i] \in endpoints

V4Requests == {V4Endpoint(op) : op \in ListMutations}

V3Requests == {V3Endpoint(op) : op \in ListMutations}

C20_WriteProtocol ==
    /\ ent.tmdb.request_token => ent.tmdb.api4 # 0
    /\ (elast.op = "v4_authenticate" /\ ~elast.preApi4) =>
           (elast.err = "Authentication" /\ elast.reqs = <<>> /\ ~ent.tmdb.request_token)
    /\ (elast.op = "v4_approved" /\ ~elast.preToken) =>
           (elast.err = "Authentication" /\ elast.reqs = <<>>
              /\ HasWriteToken(ent.objs, ent.tmdb.api4) = elast.preWrite)
    /\ (elast.op = "v4_approved" /\ elast.err = "none") => (elast.preToken /\ elast.preApi4)
    /\ (elast.op = "movie_recommendations" /\ ~elast.preWrite) =>
           (elast.err = "Authentication" /\ elast.reqs = <<>>)

C20_Witness ==
    /\ elast.op = "movie_recommendations" /\ elast.err = "Authentication"
    /\ elast.preApi4 /\ ~elast.preWrite /\ ~elast.preToken

\* C21: a read of session_id with none stored makes one conversion request
\* and stores the session when the attached API4 holds a write token, and
\* raises Authentication without a request otherwise; a stored session is
\* returned without a request; account_id raises Authentication when no
\* session can be obtained.
C21_SessionId ==
    /\ (elast.op = "session_id" /\ ~elast.preSession /\ elast.preWrite) =>
           /\ elast.err = "none"
           /\ elast.reqs = <<"v3:session_from_v4">>
           /\ ent.tmdb.session
    /\ (elast.op = "session_id" /\ ~elast.preSession /\ ~elast.preWrite) =>
           /\ elast.err = "Authentication" /\ elast.reqs = <<>>
           /\ ~ent.tmdb.session
    /\ (elast.op = "session_id" /\ elast.preSession) =>
           /\ elast.err = "none" /\ elast.reqs = <<>>
           /\ ent.tmdb.session
    /\ (elast.op = "account_id" /\ ~elast.preSession /\ ~elast.preWrite) =>
           /\ elast.err = "Authentication" /\ elast.reqs = <<>>

C21_Witness ==
    /\ elast.op = "session_id" /\ ~elast.preSession /\ elast.preWrite
    /\ elast.reqs = <<"v3:session_from_v4">> /\ ent.tmdb.session

\* The normal form of a piece that names a language
Canon(piece) ==
    CASE piece \in {"en", "EN"} -> "en"
      [] piece \in {"en-US", "en-us"} -> "en-US"
      [] piece \in {"None", "null"} -> "null"
      [] OTHER -> piece

KnownLanguage(s) == Len(s) = 1 /\ s[1] \in {"en", "EN", "en-US", "en-us"}

\* Tags (or null/none) separated by single commas
KnownInclude(s) ==
    /\ Len(s) % 2 = 1
    /\ \A i \in 1..Len(s) :
          IF i % 2 = 1 THEN s[i] \in {"en", "EN", "en-US", "en-us", "None", "null"}
          ELSE s[i] = ","

\* C22: setting language or include_language to None clears it, to a known
\* value stores the normalized value (include_language: the comma-joined
\* normalized elements, null/none as "null"), and to anything else raises
\* Invalid and keeps the stored value.
C22_LanguageSetters ==
    /\ elast.op = "language" =>
          IF elast.arg = Null THEN elast.err = "none" /\ ent.language = Null
          ELSE IF KnownLanguage(elast.arg.v)
               THEN elast.err = "none" /\ ent.language = JStr(<<Canon(elast.arg.v[1])>>)
          ELSE elast.err = "Invalid" /\ ent.language = elast.pre
    /\ elast.op = "include_language" =>
          IF elast.arg = Null THEN elast.err = "none" /\ ent.include_language = Null
          ELSE IF KnownInclude(elast.arg.v)
               THEN /\ elast.err = "none"
                    /\ ent.include_language =
                           JStr([i \in 1..Len(elast.arg.v) |-> Canon(elast.arg.v[i])])
          ELSE elast.err = "Invalid" /\ ent.include_language = elast.pre

C22_Witness ==
    /\ elast.op = "include_language" /\ elast.err = "Invalid"
    /\ elast.arg = JStr(<<"en", ",", "zz">>)
    /\ elast.pre = JStr(<<"null", ",", "en-US">>)
    /\ ent.include_language = elast.pre

\* The rating requests among the requests of the last call
RatingRequests == SelectSeq(elast.reqs, LAMBDA q : q.value # Null)

InRange(rating) == 5 <= rating /\ rating <= 100

\* C23 as stated: Invalid and no request exactly outside [0.5, 10.0], and
\* one rating request carrying the value for every rating inside.
C23_AsStated ==
    elast.op = "rate" =>
        IF InRange(elast.rating)
        THEN /\ elast.err # "Invalid"
             /\ RatingRequests =
                    <<[endpoint |-> RateEndpoint(ent.kind), value |-> JFloat(elast.rating)]>>
        ELSE elast.err = "Invalid" /\ elast.reqs = <<>>

\* C23: rate raises Invalid without any request exactly when the rating is
\* outside [0.5, 10.0]; a rating inside sends exactly one rating request
\* carrying the value when a session is stored or can be made from a v4
\* write token, and otherwise raises Authentication with nothing sent.
C23_Rate ==
    elast.op = "rate" =>
        IF ~InRange(elast.rating)
        THEN elast.err = "Invalid" /\ elast.reqs = <<>>
        ELSE IF elast.preSession \/ elast.preWrite
             THEN /\ elast.err = "none"
                  /\ RatingRequests =
                         <<[endpoint |-> RateEndpoint(ent.kind),
                            value |-> JFloat(elast.rating)]>>
        ELSE elast.err = "Authentication" /\ elast.reqs = <<>>

C23_Witness ==
    /\ elast.op = "rate" /\ elast.rating = 5 /\ elast.err = "none"
    /\ ent.kind = "Episode" /\ Len(elast.reqs) = 1

\* C24: attribute reads on one controller trigger at most one fetch in
\* total, and a read made after load_page(n) sends nothing and leaves the
\* current page and results as load_page left them.
C24_ReadsFetchOnce ==
    /\ fetched.reads <= 1
    /\ (plast.op = "read" /\ plast.after = "load_page") =>
           /\ plast.reqs = <<>>
           /\ pg.page = plast.prePage
           /\ pg.results = plast.preResults

\* C25: a controller of every concrete kind comes to exist, and load_page(n)
\* on a page not yet cached sends page number n to the remote and returns
\* with current page n, the results and totals of that response, and the
\* cache entry for n holding those results.
C25_LoadPageInstalls ==
    /\ (plast.op = "construct" /\ ~plast.failed) => plast.err # "AttributeError"
    /\ (plast.op = "load_page" /\ ~plast.preCached /\ plast.err = "none") =>
           /\ plast.reqs # <<>> /\ plast.reqs[Len(plast.reqs)] = plast.arg
           /\ pg.page = plast.arg
           /\ pg.results = Response(plast.arg, pg.total_results).results
           /\ pg.total_pages = Response(plast.arg, pg.total_results).total_pages
           /\ ~fetched.changed => pg.total_results = rtotal
           /\ plast.arg \in DOMAIN pg.storage
           /\ pg.storage[plast.arg] = pg.results

\* A read whose full-load call raised has just returned
FailedFetchStep ==
    /\ elast' # elast
    /\ elast'.op = "read" /\ elast'.err = "TMDbException"

\* C26: when the full-load call raises during a read-triggered fetch, the
\* error reaches the reader and the entity stays settled with every field
\* unchanged but no longer partial; from then on reads of unpopulated fields
\* return the stored default without a fetch, the flag never coming back.
C26_FailedLazyFetch ==
    /\ [][FailedFetchStep =>
            /\ ent.partial /\ ~ent.loading /\ elast'.sent = 1
            /\ ent'.attr = ent.attr /\ ent'.name = ent.name
            /\ ~ent'.loading /\ ~ent'.partial]_vars
    /\ [][(ent.state = "live" /\ ~ent.partial /\ ~ent.loading) => ~ent'.partial]_vars
    /\ []((elast.op = "read" /\ ~elast.prePartial) =>
            /\ elast.sent = 0 /\ elast.err = "none"
            /\ elast.ret = elast.preValue)

C26_Witness ==
    /\ elast.op = "read" /\ elast.err = "TMDbException" /\ elast.prePartial
    /\ ent.state = "live" /\ ~ent.partial /\ ~ent.loading
    /\ ent.attr.title = Null

\* C27: get_results walks from page 1 whatever the current page was, and on
\* return the controller's page and results are those of the last page it
\* visited, not those that were current before the call.
C27_WalkLeavesLastPage ==
    (plast.op = "get_results" /\ plast.err = "none") =>
        /\ plast.visited >= 1
        /\ pg.page = plast.visited
        /\ plast.visited \in DOMAIN pg.storage
        /\ pg.results = pg.storage[plast.visited]
        /\ plast.prePage # plast.visited => pg.page # plast.prePage
        /\ ~fetched.changed =>
              /\ plast.ret = FirstItems(Len(plast.ret))
              /\ plast.visited = PagesFor(Len(plast.ret))
              /\ pg.results = PageItems(plast.visited, rtotal)

C27_Witness ==
    /\ plast.op = "get_results" /\ plast.err = "none" /\ ~fetched.changed
    /\ plast.prePage = 3 /\ plast.visited = 2 /\ pg.page = 2
    /\ plast.ret = <<1, 2, 3>>

\* A reload that returned kept every cache entry but page 1's
ReloadKeepsCache ==
    (plast.op = "reload" /\ plast.err = "none") =>
        /\ plast.reqs = <<1>>
        /\ \A p \in DOMAIN plast.preStorage \ {1} :
              p \in DOMAIN pg.storage /\ pg.storage[p] = plast.preStorage[p]

\* load_page of a page whose entry is older than the last reload
StalePageAsked ==
    /\ plast.op = "load_page"
    /\ plast.arg >= 2 /\ plast.arg \in DOMAIN fetched.kept

ServedFromCache ==
    /\ plast.err = "none" /\ plast.reqs = <<>>
    /\ pg.page = plast.arg /\ pg.results = fetched.kept[plast.arg]

C29_TvOnlyThroughV4 ==
    (elast.op \in {"add", "remove"} /\ elast.arg = JStr("tv")) =>
        ~Sent(elast.reqs, {V3Endpoint("add"), V3Endpoint("remove")})

\* The payload names an id (a null id counts as none)
HasId(data) == "id" \in DOMAIN data.v /\ data.v["id"] # Null

SameNames(a, b) == a.v["name"] = b.v["name"]

\* C30: a kind that coerces its id as an integer gives a payload without id
\* the id 0, so two such entities of the kind are equal whatever their names
\* and equal the integer 0; names decide only where a missing id stays None.
C30_MissingIdIsZero ==
    eqout # Pending =>
        /\ (eqin.kind = "Season" /\ ~HasId(eqin.data)) =>
              /\ eqout.self.v.id = JInt(0)
              /\ (eqin.other.t = "dict" /\ ~HasId(eqin.other)) => eqout.r = Ok(JBool(TRUE))
              /\ eqin.other = JInt(0) => eqout.r = Ok(JBool(TRUE))
        /\ (eqin.kind = "Season" /\ eqin.other.t = "dict") =>
              eqout.r = Ok(JBool(eqout.self.v.id = eqout.other.v.id))
        /\ (eqin.kind # "Season" /\ ~HasId(eqin.data)) =>
              /\ eqout.self.v.id = Null
              /\ (eqin.other.t = "dict" /\ ~HasId(eqin.other)) =>
                    eqout.r = Ok(JBool(SameNames(eqin.data, eqin.other)))
              /\ eqin.other = JInt(0) => eqout.r = Ok(JBool(FALSE))

C30_Witness ==
    /\ eqout # Pending /\ eqin.kind = "Season"
    /\ eqin.data = JDict("name" :> JStr("A")) /\ eqin.other = JDict("name" :> JStr("B"))
    /\ eqout.r = Ok(JBool(TRUE))
====
